---- MODULE Spec2Model ----
(***************************************************************************)
(* Video-Text-Extractor: the App component (src/unnamed/part_000, lines    *)
(* 1-1117) and the videoAnalyzer service (lines 1119-1335).                *)
(*                                                                         *)
(* Strings are sequences of one-character strings, so that formatting,     *)
(* joining and parsing are computed and not assumed.                       *)
(***************************************************************************)
EXTENDS Integers, Sequences, FiniteSets, TLC

(***************************************************************************)
(* Bounds of the model.                                                    *)
(***************************************************************************)
\* largest number of seconds handed to the two formatters
MaxSeconds == 6100
\* largest number of transcription entries handed to the formatter
MaxEntries == 2
\* media times are counted in ticks of 1/TicksPerSecond second
TicksPerSecond == 2
\* longest video handed to the frame sampler, in ticks
MaxDurationTicks == 21
\* object URLs of one slot that can be live or still referenced at one time
MaxUrls == 3
\* metadata loaders of handleFileChange that can be pending at one time
MaxLoaders == 1
\* handleAnalyzeClick invocations that can be pending at one time
MaxAnalyses == 1
\* FileReaders of handleTextFileChange that can be pending at one time
MaxTextReaders == 1
\* asynchronous operations of all kinds (metadata loaders, FileReaders, analyses,
\* invocations of the image handlers) that can be pending at one time
MaxPending == 2
\* most lines of a text handed to handleInsertTimestamp
MaxLines == 3
\* longest text handed to handleInsertTimestamp: MaxLines lines of up to 7 characters
MaxTextLen == 8 * MaxLines

(***************************************************************************)
(* JavaScript values and string helpers.                                    *)
(***************************************************************************)
\* null and NaN in a field of type number: no number of the model is negative
\* there (durations and playback times are >= 0)
NullNum == -1
NaNNum == -2
\* the number Infinity (video.duration of a medium whose length is not known)
Infinity == -3

DigitChars == <<"0", "1", "2", "3", "4", "5", "6", "7", "8", "9">>

Min(a, b) == IF a <= b THEN a ELSE b

\* Math.floor(a / b) for b > 0
FloorDiv(a, b) == IF a >= 0 THEN a \div b ELSE -(((-a) + b - 1) \div b)

\* the JavaScript remainder a % b (sign of the dividend), b > 0
JsRem(a, b) == IF a >= 0 THEN a % b ELSE -((-a) % b)

RECURSIVE NatToString(_)
NatToString(n) ==
    IF n < 10 THEN <<DigitChars[n + 1]>>
    ELSE NatToString(n \div 10) \o <<DigitChars[(n % 10) + 1]>>

\* String(n) of an integer
NumberToString(n) == IF n < 0 THEN <<"-">> \o NatToString(-n) ELSE NatToString(n)

\* s.padStart(2, '0')
PadStart2(s) == IF Len(s) >= 2 THEN s ELSE IF Len(s) = 1 THEN <<"0">> \o s ELSE <<"0", "0">>

\* formatTimestamp of the service, with the padding left out (a plausible slip)
formatTimestampNoPad(totalSeconds) ==
    LET minutes == FloorDiv(totalSeconds, 60)
        seconds == JsRem(totalSeconds, 60)
    IN  NumberToString(minutes) \o <<":">> \o NumberToString(seconds)

\* formatTimestamp (service): totalSeconds is an integer, so Math.floor keeps it
formatTimestamp(totalSeconds) ==
    LET flooredSeconds == totalSeconds
        minutes == FloorDiv(flooredSeconds, 60)
        seconds == JsRem(flooredSeconds, 60)
    IN  PadStart2(NumberToString(minutes)) \o <<":">> \o PadStart2(NumberToString(seconds))

\* formatDuration (App): null and NaN give 00:00; a number of whole seconds
\* otherwise (a fractional value t >= 0 formats as Math.floor(t) does, both
\* fields being floored)
formatDuration(totalSeconds) ==
    IF totalSeconds = NullNum \/ totalSeconds = NaNNum THEN <<"0", "0", ":", "0", "0">>
    ELSE LET minutes == FloorDiv(totalSeconds, 60)
             seconds == JsRem(totalSeconds, 60)
         IN  PadStart2(NumberToString(minutes)) \o <<":">> \o PadStart2(NumberToString(seconds))

Range(f) == {f[i] : i \in DOMAIN f}

RECURSIVE Join(_, _)
\* lines.join(sep)
Join(lines, sep) ==
    IF Len(lines) = 0 THEN <<>>
    ELSE IF Len(lines) = 1 THEN lines[1]
    ELSE lines[1] \o sep \o Join(Tail(lines), sep)

ClipLengthPrefix == <<"c", "l", "i", "p", " ", "l", "e", "n", "g", "t", "h", " ">>

\* formattedText with the emptiness test left out (a plausible slip)
formattedTextNoGuard(trans, st, duration) ==
    IF st # "success" THEN <<>>
    ELSE Join([i \in 1..Len(trans) |-> trans[i].timestamp \o <<" ">> \o trans[i].text], <<"\n">>)
         \o <<"\n">> \o ClipLengthPrefix \o formatDuration(duration)

\* the useMemo formattedText of the App
formattedText(trans, st, duration) ==
    IF st # "success" THEN <<>>
    ELSE LET transcriptionLines ==
                 Join([i \in 1..Len(trans) |->
                          trans[i].timestamp \o <<" ">> \o trans[i].text], <<"\n">>)
             durationLine == ClipLengthPrefix \o formatDuration(duration)
         IN  IF transcriptionLines # <<>>
             THEN transcriptionLines \o <<"\n">> \o durationLine
             ELSE durationLine

(***************************************************************************)
(* State.                                                                  *)
(***************************************************************************)
VARIABLES
    fIn,      \* formatter check: the call under test (function and arguments)
    fOut,     \* formatter check: [done, text], the result once the call has returned
    sIn,      \* sampler: the run's input (canvas context available, the file's duration and fault)
    sPc,      \* sampler: where the run is
    sDuration,    \* sampler: const duration (ticks), NullNum before the metadata has loaded
    sCurrentTime, \* sampler: let currentTime (seconds), the sampling cursor
    sVideoTime,   \* sampler: video.currentTime (ticks)
    sFrames,      \* sampler: const frames
    sSeeks,       \* sampler: the positions assigned to video.currentTime, in order
    sProgress,    \* sampler: the values handed to onProgress, in order
    sHandlers,    \* sampler: the event handlers registered on the video element
    sSrcUrl,      \* sampler: the object URL of video.src: "none", "live" or "revoked"
    app,          \* App: the useState values of the component
    mounted,      \* App: the component is mounted
    urls,         \* browser: per slot, every object URL made for it: free, live or revoked
    metaLoaders,  \* pending metadata loaders of handleFileChange, per file
    textReaders,  \* pending FileReaders of handleTextFileChange
    analyses,     \* pending handleAnalyzeClick invocations
    tasks,        \* pending invocations of the other asynchronous handlers
    apiKey,       \* the API credential: local storage, process.env.API_KEY, the input field
    loaderUrl     \* the object URL of the metadata loader that was started or has fired last

fmtVars == <<fIn, fOut>>
samplerVars == <<sIn, sPc, sDuration, sCurrentTime, sVideoTime, sFrames, sSeeks, sProgress,
                 sHandlers, sSrcUrl>>
uiVars == <<app, mounted, urls, metaLoaders, textReaders, analyses, tasks, loaderUrl>>
vars == <<fIn, fOut, sIn, sPc, sDuration, sCurrentTime, sVideoTime, sFrames, sSeeks, sProgress,
          sHandlers, sSrcUrl, app, mounted, urls, metaLoaders, textReaders,
          analyses, tasks, apiKey, loaderUrl>>

(***************************************************************************)
(* The App component after construction (the useState defaults), and the   *)
(* browser with nothing pending.                                           *)
(***************************************************************************)
Null == "null"
NullUrl == 0
Urls == 1..MaxUrls
VideoFiles == {"good.mp4", "bad.mp4"}

AppInitial ==
    [videoFile |-> Null, externalImageFile |-> Null, videoDuration |-> NullNum,
     videoUrl |-> NullUrl, capturedFrameUrl |-> NullUrl, editedFrameUrl |-> NullUrl,
     videoCurrentTime |-> 0, status |-> "idle", transcriptions |-> <<>>, error |-> Null,
     editableText |-> <<>>, isCapturing |-> FALSE,
     isCapturingFrame |-> FALSE, isReWriting |-> FALSE, isEditing |-> FALSE,
     editPrompt |-> "", quickEditLoadingKey |-> Null, isImagePreviewVisible |-> FALSE,
     isReWritePopupOpen |-> FALSE, isReWritingFromPopup |-> FALSE]

Slots == {"video", "captured", "edited"}

\* the placeholder of the API key field, and the credential state of a page
\* that has no key at all
NoApiKeyPlaceholder == "no API key"
NoApiKey ==
    [localStorage |-> Null, envApiKey |-> "", buildApiKey |-> "",
     apiKeyInput |-> NoApiKeyPlaceholder, requests |-> <<>>, sentKey |-> Null,
     lastOp |-> "init", sinceClear |-> "none"]
NoUrls == [s \in Slots |-> [u \in Urls |-> "free"]]
NoLoaders == [f \in VideoFiles |-> 0]

(***************************************************************************)
(* The formatters as a state machine: one call, from its arguments to its  *)
(* result.                                                                 *)
(***************************************************************************)
EntryTexts == {<<>>, <<"H">>, <<"W", "O">>, <<"a", "\n", "b">>}
EntrySeconds == {0, 4, 65}
Entries == [timestamp : {formatTimestamp(s) : s \in EntrySeconds}, text : EntryTexts]
EntryLists == UNION {[1..n -> Entries] : n \in 0..MaxEntries}
Durations == {NullNum, NaNNum, 0, 59, 130, 3599}
Statuses == {"idle", "processing", "success", "error"}

\* the parsed JSON of the AI response: integer timestamps, whatever their value
RawTimestamps == {-5, 0, 65, 5999, 6000}
RawTexts == {<<"H">>, <<"W", "O">>}
RawEntries == [timestamp : RawTimestamps, text : RawTexts]
RawResultLists == UNION {[1..n -> RawEntries] : n \in 0..MaxEntries}

\* the mapping with the timestamps left as the model returned them (a plausible slip)
formattedResultsUnformatted(rawResults) ==
    [i \in 1..Len(rawResults) |->
        [timestamp |-> NumberToString(rawResults[i].timestamp), text |-> rawResults[i].text]]

\* const formattedResults of analyzeVideoForText
formattedResults(rawResults) ==
    [i \in 1..Len(rawResults) |->
        [timestamp |-> formatTimestamp(rawResults[i].timestamp), text |-> rawResults[i].text]]

FormatCalls ==
    [fn : {"formatTimestamp", "formatDuration"}, totalSeconds : 0..MaxSeconds]
    \cup [fn : {"formatDuration"}, totalSeconds : {NullNum, NaNNum}]
    \cup [fn : {"formattedText"}, totalSeconds : {0}, transcriptions : EntryLists,
          status : Statuses, videoDuration : Durations]
    \cup [fn : {"formattedResults"}, totalSeconds : {0}, rawResults : RawResultLists]

NoResult == [done |-> FALSE, text |-> <<>>]
Result(t) == [done |-> TRUE, text |-> t]

NoFormatCall == [fn |-> "none", totalSeconds |-> 0]

CallFormatTimestamp ==
    /\ ~fOut.done /\ fIn.fn = "formatTimestamp"
    /\ fOut' = Result(formatTimestamp(fIn.totalSeconds))
    /\ UNCHANGED <<fIn, apiKey, samplerVars, uiVars>>

CallFormatDuration ==
    /\ ~fOut.done /\ fIn.fn = "formatDuration"
    /\ fOut' = Result(formatDuration(fIn.totalSeconds))
    /\ UNCHANGED <<fIn, apiKey, samplerVars, uiVars>>

CallFormattedText ==
    /\ ~fOut.done /\ fIn.fn = "formattedText"
    /\ fOut' = Result(formattedText(fIn.transcriptions, fIn.status, fIn.videoDuration))
    /\ UNCHANGED <<fIn, apiKey, samplerVars, uiVars>>

\* the mapping of analyzeVideoForText over the parsed response
CallFormattedResults ==
    /\ ~fOut.done /\ fIn.fn = "formattedResults"
    /\ fOut' = Result(formattedResults(fIn.rawResults))
    /\ UNCHANGED <<fIn, apiKey, samplerVars, uiVars>>

FormatNext ==
    CallFormatTimestamp \/ CallFormatDuration \/ CallFormattedText \/ CallFormattedResults

NoSamplerInput == [hasContext |-> TRUE, duration |-> 0, seekableEnd |-> 0, fault |-> "none"]

FormatInit ==
    /\ fIn \in FormatCalls /\ fOut = NoResult
    /\ sIn = NoSamplerInput
    /\ sPc = "idle" /\ sDuration = NullNum /\ sCurrentTime = 0 /\ sVideoTime = 0
    /\ sFrames = <<>> /\ sSeeks = <<>> /\ sProgress = <<>> /\ sHandlers = {} /\ sSrcUrl = "none"
    /\ apiKey = NoApiKey /\ loaderUrl = "none"
    /\ app = AppInitial /\ mounted = TRUE /\ urls = NoUrls
    /\ metaLoaders = NoLoaders /\ textReaders = 0 /\ analyses = <<>> /\ tasks = <<>>

SpecFormat == FormatInit /\ [][FormatNext]_vars

(***************************************************************************)
(* handleInsertTimestamp as a function of what it reads: the text, the     *)
(* selection of the textarea and the playback time; its result is the text *)
(* handed to setEditableText.  Positions are JavaScript indices (from 0).   *)
(***************************************************************************)
\* the clamping String.prototype methods apply to an index
ClampIndex(i, len) == IF i < 0 THEN 0 ELSE IF i > len THEN len ELSE i

\* text.lastIndexOf(ch, position) for a one-character ch: the last index <= position
LastIndexOf(text, ch, position) ==
    LET from == ClampIndex(position, Len(text))
        hits == {i \in 0..Min(from, Len(text) - 1) : text[i + 1] = ch}
    IN  IF hits = {} THEN -1 ELSE CHOOSE i \in hits : \A j \in hits : j <= i

\* text.indexOf(ch, position) for a one-character ch: the first index >= position
IndexOf(text, ch, position) ==
    LET from == ClampIndex(position, Len(text))
        hits == {i \in from..Len(text) - 1 : text[i + 1] = ch}
    IN  IF hits = {} THEN -1 ELSE CHOOSE i \in hits : \A j \in hits : i <= j

\* text.substring(a, b): both clamped, and swapped when a > b
Substring(text, a, b) ==
    LET x == ClampIndex(a, Len(text))
        y == ClampIndex(b, Len(text))
    IN  IF x <= y THEN SubSeq(text, x + 1, y) ELSE SubSeq(text, y + 1, x)

\* text.substring(a)
SubstringFrom(text, a) == Substring(text, a, Len(text))

\* \d of a regular expression without the u flag
DigitSet == {"0", "1", "2", "3", "4", "5", "6", "7", "8", "9"}
RegexDigit(c) == c \in DigitSet

\* timestampRegex.test(line), timestampRegex = /^\d{2}:\d{2}/
timestampRegexTest(line) ==
    /\ Len(line) >= 5
    /\ RegexDigit(line[1]) /\ RegexDigit(line[2]) /\ line[3] = ":"
    /\ RegexDigit(line[4]) /\ RegexDigit(line[5])

\* a replace that puts the replacement in front of the match and keeps the
\* match (a plausible slip: the pattern "^" alone)
timestampRegexPrepend(line, replacement) ==
    IF timestampRegexTest(line) THEN replacement \o line ELSE line

\* line.replace(timestampRegex, replacement), the replacement holding no $
timestampRegexReplace(line, replacement) ==
    IF timestampRegexTest(line) THEN replacement \o SubSeq(line, 6, Len(line)) ELSE line

\* handleInsertTimestamp with the line searched from the cursor itself and not
\* from the character before it (a plausible slip)
handleInsertTimestampFromCursor(text, selectionStart, selectionEnd, videoCurrentTime) ==
    LET cursorPosition == selectionStart
        timeToInsert == formatDuration(videoCurrentTime)
        lineStartIndex == LastIndexOf(text, "\n", cursorPosition) + 1
        found == IndexOf(text, "\n", cursorPosition)
        lineEndIndex == IF found = -1 THEN Len(text) ELSE found
        currentLine == Substring(text, lineStartIndex, lineEndIndex)
    IN  IF timestampRegexTest(currentLine)
        THEN Substring(text, 0, lineStartIndex)
                 \o timestampRegexReplace(currentLine, timeToInsert)
                 \o SubstringFrom(text, lineEndIndex)
        ELSE Substring(text, 0, selectionStart) \o timeToInsert
                 \o SubstringFrom(text, selectionEnd)

\* handleInsertTimestamp whose fallback inserts at the cursor and keeps the
\* selected text (a plausible slip)
handleInsertTimestampKeepsSelection(text, selectionStart, selectionEnd, videoCurrentTime) ==
    LET cursorPosition == selectionStart
        timeToInsert == formatDuration(videoCurrentTime)
        lineStartIndex == LastIndexOf(text, "\n", cursorPosition - 1) + 1
        found == IndexOf(text, "\n", cursorPosition)
        lineEndIndex == IF found = -1 THEN Len(text) ELSE found
        currentLine == Substring(text, lineStartIndex, lineEndIndex)
    IN  IF timestampRegexTest(currentLine)
        THEN Substring(text, 0, lineStartIndex)
                 \o timestampRegexReplace(currentLine, timeToInsert)
                 \o SubstringFrom(text, lineEndIndex)
        ELSE Substring(text, 0, selectionStart) \o timeToInsert
                 \o SubstringFrom(text, selectionStart)

\* handleInsertTimestamp with a textarea mounted: the argument of setEditableText
handleInsertTimestamp(text, selectionStart, selectionEnd, videoCurrentTime) ==
    LET cursorPosition == selectionStart
        timeToInsert == formatDuration(videoCurrentTime)
        lineStartIndex == LastIndexOf(text, "\n", cursorPosition - 1) + 1
        found == IndexOf(text, "\n", cursorPosition)
        lineEndIndex == IF found = -1 THEN Len(text) ELSE found
        currentLine == Substring(text, lineStartIndex, lineEndIndex)
    IN  IF timestampRegexTest(currentLine)
        THEN Substring(text, 0, lineStartIndex)
                 \o timestampRegexReplace(currentLine, timeToInsert)
                 \o SubstringFrom(text, lineEndIndex)
        ELSE Substring(text, 0, selectionStart) \o timeToInsert
                 \o SubstringFrom(text, selectionEnd)

\* the lines a transcript is put together from: empty, plain, a timestamp alone,
\* a timestamp with text, and a near miss of the pattern
TextLines ==
    {<<>>, <<"a">>, <<"1", "2", ":", "3", "4">>, <<"0", "0", ":", "0", "4", " ", "W">>,
     <<"1", ":", "2", "3", "4">>}
Texts == UNION {{Join(ls, <<"\n">>) : ls \in [1..n -> TextLines]} : n \in 1..MaxLines}
\* videoCurrentTime in whole seconds
PlaybackTimes == {0, 75, 6000}

InsertCalls ==
    {c \in [fn : {"handleInsertTimestamp"}, text : Texts, selectionStart : 0..MaxTextLen,
            selectionEnd : 0..MaxTextLen, videoCurrentTime : PlaybackTimes,
            hasTextarea : BOOLEAN] :
        c.selectionStart <= c.selectionEnd /\ c.selectionEnd <= Len(c.text)}

\* one invocation of handleInsertTimestamp; without a textarea it returns at once
CallInsertTimestamp ==
    /\ ~fOut.done /\ fIn.fn = "handleInsertTimestamp"
    /\ fOut' = Result(IF fIn.hasTextarea
                      THEN handleInsertTimestamp(fIn.text, fIn.selectionStart,
                                                 fIn.selectionEnd, fIn.videoCurrentTime)
                      ELSE fIn.text)
    /\ UNCHANGED <<fIn, apiKey, samplerVars, uiVars>>

InsertInit ==
    /\ fIn \in InsertCalls /\ fOut = NoResult
    /\ sIn = NoSamplerInput
    /\ sPc = "idle" /\ sDuration = NullNum /\ sCurrentTime = 0 /\ sVideoTime = 0
    /\ sFrames = <<>> /\ sSeeks = <<>> /\ sProgress = <<>> /\ sHandlers = {} /\ sSrcUrl = "none"
    /\ apiKey = NoApiKey /\ loaderUrl = "none"
    /\ app = AppInitial /\ mounted = TRUE /\ urls = NoUrls
    /\ metaLoaders = NoLoaders /\ textReaders = 0 /\ analyses = <<>> /\ tasks = <<>>

SpecInsert == InsertInit /\ [][CallInsertTimestamp]_vars

(***************************************************************************)
(* handleInsertTimestamp pressed twice at the same playback time.  After   *)
(* the first press the handler's timer has put the cursor just after the   *)
(* inserted timestamp; the user may move it within that line before the    *)
(* second press.  fIn is then the second call, fOut its result.            *)
(***************************************************************************)
\* most lines of a text the timestamp button is pressed twice on
MaxEditedLines == 2

EditedTexts ==
    UNION {{Join(ls, <<"\n">>) : ls \in [1..n -> TextLines]} : n \in 1..MaxEditedLines}

\* newCursorPosition of handleInsertTimestamp, the argument of setSelectionRange
newCursorPosition(text, selectionStart, videoCurrentTime) ==
    LET timeToInsert == formatDuration(videoCurrentTime)
        lineStartIndex == LastIndexOf(text, "\n", selectionStart - 1) + 1
        found == IndexOf(text, "\n", selectionStart)
        lineEndIndex == IF found = -1 THEN Len(text) ELSE found
        currentLine == Substring(text, lineStartIndex, lineEndIndex)
    IN  IF timestampRegexTest(currentLine)
        THEN lineStartIndex + Len(timeToInsert)
        ELSE selectionStart + Len(timeToInsert)

\* no line break of the text lies between the positions a and b
SameLine(text, a, b) ==
    \A j \in 1..Len(text) :
        ((a < j /\ j <= b) \/ (b < j /\ j <= a)) => text[j] # "\n"

\* the line of the textarea the cursor is on starts with dd:dd
CursorLinePrefixed(text, selectionStart) ==
    LET starts == {i \in 0..selectionStart :
                      /\ i = 0 \/ text[i] = "\n"
                      /\ SameLine(text, i, selectionStart)}
    IN  \E i \in starts : timestampRegexTest(SubSeq(text, i + 1, Len(text)))

TwiceCalls ==
    {c \in [fn : {"handleInsertTimestamp"}, text : EditedTexts,
            selectionStart : 0..8 * MaxEditedLines, selectionEnd : 0..8 * MaxEditedLines,
            videoCurrentTime : PlaybackTimes, hasTextarea : {TRUE},
            prefixed : BOOLEAN, again : {FALSE}] :
        /\ c.selectionStart <= c.selectionEnd /\ c.selectionEnd <= c.selectionStart + 1
        /\ c.selectionEnd <= Len(c.text)
        /\ c.prefixed = CursorLinePrefixed(c.text, c.selectionStart)}

\* the second press: editableText is the text the first press set, the cursor
\* is where the timer put it or where the user moved it to on that line
InsertTimestampAgain ==
    /\ fOut.done /\ fIn.fn = "handleInsertTimestamp" /\ ~fIn.again
    /\ \E selectionStart \in 0..Len(fOut.text) :
          /\ SameLine(fOut.text, selectionStart,
                      newCursorPosition(fIn.text, fIn.selectionStart, fIn.videoCurrentTime))
          /\ fIn' = [fIn EXCEPT !.text = fOut.text, !.selectionStart = selectionStart,
                                !.selectionEnd = selectionStart, !.again = TRUE]
          /\ fOut' = Result(handleInsertTimestamp(fOut.text, selectionStart, selectionStart,
                                                  fIn.videoCurrentTime))
    /\ UNCHANGED <<apiKey, samplerVars, uiVars>>

TwiceInit ==
    /\ fIn \in TwiceCalls /\ fOut = NoResult
    /\ sIn = NoSamplerInput
    /\ sPc = "idle" /\ sDuration = NullNum /\ sCurrentTime = 0 /\ sVideoTime = 0
    /\ sFrames = <<>> /\ sSeeks = <<>> /\ sProgress = <<>> /\ sHandlers = {} /\ sSrcUrl = "none"
    /\ apiKey = NoApiKey /\ loaderUrl = "none"
    /\ app = AppInitial /\ mounted = TRUE /\ urls = NoUrls
    /\ metaLoaders = NoLoaders /\ textReaders = 0 /\ analyses = <<>> /\ tasks = <<>>

TwiceNext == CallInsertTimestamp \/ InsertTimestampAgain

SpecTwice == TwiceInit /\ [][TwiceNext]_vars

(***************************************************************************)
(* extractFramesFromVideo: one sampling run.  The input says whether        *)
(* canvas.getContext gives a context, how long the file is, and whether the *)
(* media element reports an error: "metadata" (the file cannot be decoded, *)
(* the error comes instead of loadedmetadata) or "seek" (it comes while a   *)
(* seek is outstanding).  video.duration is the length of the medium, or    *)
(* Infinity when the browser cannot tell it; seekableEnd is the time a seek *)
(* past the end lands on: the duration when it is known.                    *)
(***************************************************************************)
FRAME_EXTRACTION_INTERVAL == 2

\* frames taken of a medium of duration Infinity before the run is left alone
\* (the code goes on sampling for ever)
MaxEndlessFrames == 3

SamplerInputs ==
    {i \in [hasContext : BOOLEAN, duration : 0..MaxDurationTicks \cup {Infinity},
            seekableEnd : 0..MaxDurationTicks, fault : {"none", "metadata", "seek"}] :
        i.duration # Infinity => i.seekableEnd = i.duration}

SamplerInit ==
    /\ fIn = NoFormatCall /\ fOut = NoResult
    /\ sIn \in SamplerInputs
    /\ sPc = "called" /\ sDuration = NullNum /\ sCurrentTime = 0 /\ sVideoTime = 0
    /\ sFrames = <<>> /\ sSeeks = <<>> /\ sProgress = <<>> /\ sHandlers = {} /\ sSrcUrl = "none"
    /\ apiKey = NoApiKey /\ loaderUrl = "none"
    /\ app = AppInitial /\ mounted = TRUE /\ urls = NoUrls
    /\ metaLoaders = NoLoaders /\ textReaders = 0 /\ analyses = <<>> /\ tasks = <<>>


\* Math.round of a time given in ticks, in seconds
RoundTicks(t) == (2 * t + TicksPerSecond) \div (2 * TicksPerSecond)

\* the test of captureFrame written with >= (a plausible slip: the last frame is lost)
CursorPastEndGe(cur, dur) == dur # Infinity /\ cur * TicksPerSecond >= dur

\* the test of captureFrame made one interval late (a plausible slip: one seek too many)
CursorPastEndLate(cur, dur) ==
    dur # Infinity /\ (cur - FRAME_EXTRACTION_INTERVAL) * TicksPerSecond > dur

\* currentTime > duration: never true of the duration Infinity
CursorPastEnd(cur, dur) == dur # Infinity /\ cur * TicksPerSecond > dur

\* Math.min(100, Math.round((currentTime / duration) * 100)); 0/0 is NaN and
\* Math.min(100, NaN) is NaN; x / Infinity is 0
ProgressValue(cur, dur) ==
    IF dur = Infinity THEN 0
    ELSE IF dur = 0
    THEN IF cur = 0 THEN NaNNum ELSE 100
    ELSE Min(100, (2 * cur * TicksPerSecond * 100 + dur) \div (2 * dur))

\* video.currentTime = currentTime: a seek past the end of the media lands on the
\* end (the HTML seek algorithm)
SeekLanding(cur) == Min(cur * TicksPerSecond, sIn.seekableEnd)

\* captureFrame(): resolve when the cursor is past the end, else request a seek
\* captureFrame as a loop would run it: the seek to the next cursor is requested
\* together with this one (a plausible slip)
captureFrameAhead(cur) ==
    IF CursorPastEnd(cur, sDuration')
    THEN /\ sSrcUrl' = "revoked"
         /\ sPc' = "resolved"
         /\ UNCHANGED <<sVideoTime, sSeeks>>
    ELSE /\ sVideoTime' = SeekLanding(cur)
         /\ sSeeks' = sSeeks \o <<SeekLanding(cur),
                                   SeekLanding(cur + FRAME_EXTRACTION_INTERVAL)>>
         /\ sPc' = "seeking"
         /\ UNCHANGED sSrcUrl

captureFrame(cur) ==
    IF CursorPastEnd(cur, sDuration')
    THEN /\ sSrcUrl' = "revoked"
         /\ sPc' = "resolved"
         /\ UNCHANGED <<sVideoTime, sSeeks>>
    ELSE /\ sVideoTime' = SeekLanding(cur)
         /\ sSeeks' = Append(sSeeks, SeekLanding(cur))
         /\ sPc' = "seeking"
         /\ UNCHANGED sSrcUrl

\* the Promise executor up to video.src = URL.createObjectURL(videoFile)
extractFramesFromVideo ==
    /\ sPc = "called"
    /\ IF ~sIn.hasContext
       THEN sPc' = "rejected" /\ UNCHANGED sSrcUrl
       ELSE sPc' = "loading" /\ sSrcUrl' = "live"
    /\ UNCHANGED <<sIn, sDuration, sCurrentTime, sVideoTime, sFrames, sSeeks, sProgress,
                   sHandlers>>
    /\ UNCHANGED <<fmtVars, uiVars, apiKey>>

\* video.onloadedmetadata
onloadedmetadata ==
    /\ sPc = "loading" /\ sIn.fault # "metadata"
    /\ sDuration' = sIn.duration
    /\ sCurrentTime' = 0
    /\ sHandlers' = {"onseeked", "onerror"}
    /\ captureFrame(0)
    /\ UNCHANGED <<sIn, sFrames, sProgress>>
    /\ UNCHANGED <<fmtVars, uiVars, apiKey>>

\* video.onseeked
onseeked ==
    /\ sPc = "seeking" /\ "onseeked" \in sHandlers
    /\ sDuration = Infinity => Len(sFrames) < MaxEndlessFrames
    /\ sFrames' = Append(sFrames, [timestamp |-> RoundTicks(sVideoTime)])
    /\ sProgress' = Append(sProgress, ProgressValue(sCurrentTime, sDuration))
    /\ sCurrentTime' = sCurrentTime + FRAME_EXTRACTION_INTERVAL
    /\ UNCHANGED sDuration
    /\ captureFrame(sCurrentTime + FRAME_EXTRACTION_INTERVAL)
    /\ UNCHANGED <<sIn, sHandlers>>
    /\ UNCHANGED <<fmtVars, uiVars, apiKey>>

\* the media element fires "error": video.onerror runs if it has been registered
\* (it is assigned inside onloadedmetadata); otherwise nothing listens and the
\* element stays in its error state, firing nothing more
MediaError ==
    /\ \/ sPc = "loading" /\ sIn.fault = "metadata"
       \/ sPc = "seeking" /\ sIn.fault = "seek"
    /\ IF "onerror" \in sHandlers
       THEN sSrcUrl' = "revoked" /\ sPc' = "rejected"
       ELSE sPc' = "mediaError" /\ UNCHANGED sSrcUrl
    /\ UNCHANGED <<sIn, sDuration, sCurrentTime, sVideoTime, sFrames, sSeeks, sProgress,
                   sHandlers>>
    /\ UNCHANGED <<fmtVars, uiVars, apiKey>>

SamplerStep == extractFramesFromVideo \/ onloadedmetadata \/ onseeked \/ MediaError

SamplerSettled == sPc \in {"resolved", "rejected"}

SpecSampler == SamplerInit /\ [][SamplerStep]_vars

(***************************************************************************)
(* The App component.  An action is one event handler, or one continuation *)
(* of an asynchronous handler from one await to the next, together with    *)
(* the render it causes and the effects of that render (Commit).  A        *)
(* handler reads the state of the render it was created in: a synchronous  *)
(* handler reads app, a continuation reads the values its invocation        *)
(* captured.  The progress line, the copy button label, the capture time   *)
(* and the API key field are read by no handler modelled here; they are    *)
(* left out.                                                               *)
(***************************************************************************)
Decodable(f) == f = "good.mp4"
DurationOf(f) == 130
\* a position of the <video> element reported by onTimeUpdate, in whole seconds
\* (0 is the position of a video that has not played yet)
VideoTimes == {75}

\* JSON.parse(jsonText) of the responses the model gives: no text found, and the
\* two entries of the end-to-end scenario
RawResponses ==
    {<<>>,
     <<[timestamp |-> 0, text |-> <<"H", "E", "L", "L", "O">>],
       [timestamp |-> 4, text |-> <<"W", "O", "R", "L", "D">>]>>}

\* what analyzeVideoForText returns
AnalysisResults == {formattedResults(rawResults) : rawResults \in RawResponses}

\* err.message of a caught error, or the fallback text of the catch: a non-empty
\* string either way
ThrownMessage == "err.message"

RemoveAt(seq, i) == SubSeq(seq, 1, i - 1) \o SubSeq(seq, i + 1, Len(seq))

\* const isAnyTaskRunning
isAnyTaskRunning(a) ==
    a.isCapturing \/ a.isEditing \/ a.isCapturingFrame \/ a.isReWriting
        \/ a.isReWritingFromPopup

\* the Analyze button is rendered with the file card and disabled while processing
AnalyzeEnabled(a) == a.videoFile # Null /\ a.status # "processing"

\* the results panel (video, capture buttons, transcript)
ResultsPanelRendered(a) ==
    a.status = "success" \/ (a.status = "idle" /\ a.videoFile # Null)

\* the <video> element, so videoRef.current, and the three capture buttons
VideoRendered(a) == ResultsPanelRendered(a) /\ a.videoUrl # NullUrl

\* the preview panel
PreviewRendered(a) == a.isImagePreviewVisible /\ a.capturedFrameUrl # NullUrl

\* formattedText of a render
FormattedTextOf(a) == formattedText(a.transcriptions, a.status, a.videoDuration)

\* the populate effect, deps [formattedText, status]; formattedText is a useMemo
\* with deps [transcriptions, status, videoDuration] and is computed again only
\* when one of them has changed
PopulateEffect(old, new) ==
    IF new.status = "success"
         /\ \/ new.status # old.status
            \/ /\ \/ new.transcriptions # old.transcriptions
                  \/ new.videoDuration # old.videoDuration
               /\ FormattedTextOf(new) # FormattedTextOf(old)
    THEN [new EXCEPT !.editableText = FormattedTextOf(new)]
    ELSE new

(***************************************************************************)
(* Object URLs.  A URL is named by the slot it was made for and a number;  *)
(* no handler moves a URL from one slot to another.  A revoked URL that    *)
(* neither the component nor a pending invocation holds is forgotten, and  *)
(* its number is used again.                                               *)
(***************************************************************************)
\* const [videoUrl], [capturedFrameUrl], [editedFrameUrl]
SlotValue(a, s) ==
    CASE s = "video" -> a.videoUrl
      [] s = "captured" -> a.capturedFrameUrl
      [] s = "edited" -> a.editedFrameUrl

\* the cleanups of the three URL effects: a slot that was set to another URL
\* revokes the URL it held
UrlCleanupEffects(old, changed) ==
    {<<s, SlotValue(old, s)>> : s \in changed}

\* the URLs of a slot that pending invocations captured and still use
ClosureRefs(s, ts) ==
    CASE s = "video" -> {}
      [] s = "captured" -> {ts[i].capturedFrameUrl : i \in 1..Len(ts)}
      [] s = "edited" -> {ts[i].editedFrameUrl : i \in 1..Len(ts)}

\* the numbers of `slot` that no pending invocation holds (`refs`) and that are
\* not live, or are revoked in this step (`rv`)
UsableAmong(slot, refs, rv) ==
    {u \in Urls :
        /\ u \notin refs
        /\ \/ urls[slot][u] \in {"free", "revoked"}
           \/ <<slot, u>> \in rv}

\* the numbers URL.createObjectURL can give a new URL of `slot` in a step that
\* leaves the pending invocations at `ts` and explicitly revokes `revoked`
UsableUrls(slot, ts, revoked) ==
    UsableAmong(slot, ClosureRefs(slot, ts), revoked \cup UrlCleanupEffects(app, {slot}))

CanCreate(slot, ts, revoked) == UsableUrls(slot, ts, revoked) # {}

\* the least number of a set
LeastOf(S) == CHOOSE u \in S : \A v \in S : u <= v

\* URL.createObjectURL for `slot`
FreshUrl(slot, ts, revoked) == LeastOf(UsableUrls(slot, ts, revoked))

\* the object URLs once the URLs in `rv` are revoked and the values of the slots
\* in `created` are new (URL.revokeObjectURL of a revoked URL does nothing)
UrlsWithRevoked(a, ts, created, rv) ==
    LET gone(s, u) == IF <<s, u>> \in rv /\ urls[s][u] = "live" THEN "revoked"
                      ELSE urls[s][u]
    IN  [s \in Slots |-> [u \in Urls |->
            IF s \in created /\ u = SlotValue(a, s) THEN "live"
            ELSE IF gone(s, u) = "revoked"
                      /\ u \notin ClosureRefs(s, ts) \cup {SlotValue(a, s)}
                 THEN "free"
                 ELSE gone(s, u)]]

\* the object URLs after a step that left the component at `a` and the pending
\* invocations at `ts`, created the values of the slots in `created` and revoked
\* `revoked`; the cleanup of a URL effect revokes the value its slot had
UrlsAfter(a, ts, created, revoked) ==
    UrlsWithRevoked(a, ts, created,
                    revoked \cup UrlCleanupEffects(app,
                        created \cup {s \in Slots : SlotValue(a, s) # SlotValue(app, s)}))

\* the render after a handler left the state at `new`, and its effects; the
\* setters of a component that has been unmounted change nothing, whereas the
\* URL calls of a continuation that runs after the unmount are made all the same.
\* A step that makes no URL call, changes no slot and leaves the pending
\* invocations alone runs no URL effect.
Commit(new, ts, created, revoked) ==
    /\ app' = IF mounted THEN PopulateEffect(app, new) ELSE app
    /\ tasks' = ts
    /\ urls' = IF /\ created = {} /\ revoked = {} /\ ts = tasks
                  /\ new.videoUrl = app.videoUrl
                  /\ new.capturedFrameUrl = app.capturedFrameUrl
                  /\ new.editedFrameUrl = app.editedFrameUrl
               THEN urls
               ELSE UrlsAfter(new, ts, created, revoked)

\* the metadata loaders that have not fired yet
LoadersPending == metaLoaders["good.mp4"] + metaLoaders["bad.mp4"]

\* the asynchronous operations that are pending
PendingOps == LoadersPending + textReaders + Len(analyses) + Len(tasks)

\* handleFileChange without the reset of the playback position (a plausible slip)
handleFileChangeKeepsTime(file) ==
    /\ mounted
    /\ LoadersPending < MaxLoaders /\ PendingOps < MaxPending
    /\ LET revoked == {<<"video", app.videoUrl>>}
       IN  /\ CanCreate("video", tasks, revoked)
           /\ Commit([app EXCEPT !.videoUrl = FreshUrl("video", tasks, revoked),
                                 !.videoFile = file, !.status = "idle",
                                 !.transcriptions = <<>>, !.error = Null,
                                 !.videoDuration = NullNum,
                                 !.editableText = <<>>, !.capturedFrameUrl = NullUrl,
                                 !.editedFrameUrl = NullUrl, !.editPrompt = "",
                                 !.externalImageFile = Null,
                                 !.isImagePreviewVisible = FALSE],
                     tasks, {"video"}, revoked)
    /\ metaLoaders' = [metaLoaders EXCEPT ![file] = @ + 1]
    /\ loaderUrl' = "live"
    /\ UNCHANGED <<mounted, textReaders, analyses>>
    /\ UNCHANGED <<fmtVars, samplerVars, apiKey>>

\* handleFileChange with a video file chosen; the upload button is never disabled
\* handleFileChange with a file chosen: the resets, and the metadata loader started
handleFileChangeCall(file) ==
    /\ LET revoked == {<<"video", app.videoUrl>>}
       IN  /\ CanCreate("video", tasks, revoked)
           /\ Commit([app EXCEPT !.videoUrl = FreshUrl("video", tasks, revoked),
                                 !.videoFile = file, !.status = "idle",
                                 !.transcriptions = <<>>, !.error = Null,
                                 !.videoDuration = NullNum, !.videoCurrentTime = 0,
                                 !.editableText = <<>>, !.capturedFrameUrl = NullUrl,
                                 !.editedFrameUrl = NullUrl, !.editPrompt = "",
                                 !.externalImageFile = Null,
                                 !.isImagePreviewVisible = FALSE],
                     tasks, {"video"}, revoked)
    /\ metaLoaders' = [metaLoaders EXCEPT ![file] = @ + 1]
    /\ loaderUrl' = "live"
    /\ UNCHANGED <<mounted, textReaders, analyses>>
    /\ UNCHANGED <<fmtVars, samplerVars, apiKey>>

\* a file chosen through the upload button
handleFileChange(file) ==
    /\ mounted
    /\ LoadersPending < MaxLoaders /\ PendingOps < MaxPending
    /\ handleFileChangeCall(file)

\* video.onloadedmetadata of a metadata loader: it revokes video.src
MetadataLoaded(file) ==
    /\ metaLoaders[file] > 0 /\ Decodable(file)
    /\ metaLoaders' = [metaLoaders EXCEPT ![file] = @ - 1]
    /\ loaderUrl' = "revoked"
    /\ Commit([app EXCEPT !.videoDuration = DurationOf(file)], tasks, {}, {})
    /\ UNCHANGED <<mounted, textReaders, analyses>>
    /\ UNCHANGED <<fmtVars, samplerVars, apiKey>>

\* video.onerror of a metadata loader: video.src stays as it is
MetadataError(file) ==
    /\ metaLoaders[file] > 0 /\ ~Decodable(file)
    /\ metaLoaders' = [metaLoaders EXCEPT ![file] = @ - 1]
    /\ loaderUrl' = "live"
    /\ Commit([app EXCEPT !.error = "Could not read video metadata.",
                          !.videoDuration = NullNum], tasks, {}, {})
    /\ UNCHANGED <<mounted, textReaders, analyses>>
    /\ UNCHANGED <<fmtVars, samplerVars, apiKey>>

\* onTimeUpdate of the <video> element: playback or a seek moved the position
onTimeUpdate(currentTime) ==
    /\ mounted /\ VideoRendered(app)
    /\ Commit([app EXCEPT !.videoCurrentTime = currentTime], tasks, {}, {})
    /\ UNCHANGED <<mounted, metaLoaders, textReaders, analyses>>
    /\ UNCHANGED <<fmtVars, samplerVars, apiKey, loaderUrl>>

\* handleTextFileChange with a text file chosen (Open .txt, in the results panel)
handleTextFileChange ==
    /\ mounted /\ ResultsPanelRendered(app)
    /\ textReaders < MaxTextReaders /\ PendingOps < MaxPending
    /\ textReaders' = textReaders + 1
    /\ UNCHANGED <<app, urls, tasks, mounted, metaLoaders, analyses>>
    /\ UNCHANGED <<fmtVars, samplerVars, apiKey, loaderUrl>>

\* reader.onload of handleTextFileChange
TextFileLoaded ==
    /\ textReaders > 0
    /\ textReaders' = textReaders - 1
    /\ Commit([app EXCEPT !.editableText = <<"t">>], tasks, {}, {})
    /\ UNCHANGED <<mounted, metaLoaders, analyses>>
    /\ UNCHANGED <<fmtVars, samplerVars, apiKey, loaderUrl>>

\* reader.onerror of handleTextFileChange
TextFileError ==
    /\ textReaders > 0
    /\ textReaders' = textReaders - 1
    /\ Commit([app EXCEPT !.error = "Failed to read the selected text file.",
                          !.status = "error"], tasks, {}, {})
    /\ UNCHANGED <<mounted, metaLoaders, analyses>>
    /\ UNCHANGED <<fmtVars, samplerVars, apiKey, loaderUrl>>

\* handleAnalyzeClick up to its await, analyzeVideoForText up to its await and
\* the executor of extractFramesFromVideo; without a video file it returns at once
handleAnalyzeClickCall ==
    IF app.videoFile = Null
    THEN UNCHANGED <<app, urls, tasks, analyses>>
    ELSE /\ Len(analyses) < MaxAnalyses /\ PendingOps < MaxPending
         /\ analyses' = Append(analyses, [file |-> app.videoFile, pc |-> "sampling"])
         /\ Commit([app EXCEPT !.status = "processing", !.error = Null,
                               !.transcriptions = <<>>, !.editableText = <<>>],
                   tasks, {}, {})

\* a click on the Analyze button
handleAnalyzeClick ==
    /\ mounted /\ AnalyzeEnabled(app)
    /\ handleAnalyzeClickCall
    /\ UNCHANGED <<mounted, metaLoaders, textReaders>>
    /\ UNCHANGED <<fmtVars, samplerVars, apiKey, loaderUrl>>

\* extractFramesFromVideo resolves (the canvas gave a context and the file was
\* decoded): analyzeVideoForText goes on to generateContent
AnalysisFramesResolved(i) ==
    /\ i \in 1..Len(analyses)
    /\ analyses[i].pc = "sampling" /\ Decodable(analyses[i].file)
    /\ analyses' = [analyses EXCEPT ![i].pc = "generateContent"]
    /\ UNCHANGED <<app, urls, tasks, mounted, metaLoaders, textReaders>>
    /\ UNCHANGED <<fmtVars, samplerVars, apiKey, loaderUrl>>

\* the catch of handleAnalyzeClick
AnalysisCatch(i) ==
    /\ analyses' = RemoveAt(analyses, i)
    /\ Commit([app EXCEPT !.error = ThrownMessage, !.status = "error"], tasks, {}, {})

\* extractFramesFromVideo rejects: no canvas context (whatever the file), or
\* video.onerror during the seeks of a file whose metadata was read
AnalysisFramesRejected(i) ==
    /\ i \in 1..Len(analyses)
    /\ analyses[i].pc = "sampling"
    /\ \E hasContext \in BOOLEAN : ~hasContext \/ Decodable(analyses[i].file)
    /\ AnalysisCatch(i)
    /\ UNCHANGED <<mounted, metaLoaders, textReaders>>
    /\ UNCHANGED <<fmtVars, samplerVars, apiKey, loaderUrl>>

\* the media element of extractFramesFromVideo (the canvas gave a context) fires
\* "error" before its metadata has loaded: no handler is registered yet, the
\* promise stays pending
AnalysisMediaErrorUnhandled(i) ==
    /\ i \in 1..Len(analyses)
    /\ analyses[i].pc = "sampling" /\ ~Decodable(analyses[i].file)
    /\ analyses' = [analyses EXCEPT ![i].pc = "mediaError"]
    /\ UNCHANGED <<app, urls, tasks, mounted, metaLoaders, textReaders>>
    /\ UNCHANGED <<fmtVars, samplerVars, apiKey, loaderUrl>>

\* generateContent resolves with well-formed JSON: the rest of analyzeVideoForText
\* and of the try block of handleAnalyzeClick
AnalysisSucceeded(i, results) ==
    /\ i \in 1..Len(analyses)
    /\ analyses[i].pc = "generateContent"
    /\ analyses' = RemoveAt(analyses, i)
    /\ Commit([app EXCEPT !.transcriptions = results, !.status = "success"],
              tasks, {}, {})
    /\ UNCHANGED <<mounted, metaLoaders, textReaders>>
    /\ UNCHANGED <<fmtVars, samplerVars, apiKey, loaderUrl>>

\* generateContent rejects, or its text is no JSON
AnalysisServiceFailed(i) ==
    /\ i \in 1..Len(analyses)
    /\ analyses[i].pc = "generateContent"
    /\ AnalysisCatch(i)
    /\ UNCHANGED <<mounted, metaLoaders, textReaders>>
    /\ UNCHANGED <<fmtVars, samplerVars, apiKey, loaderUrl>>

(***************************************************************************)
(* The image handlers.  A pending invocation is a record of tasks: its     *)
(* handler (kind), the await it is at (pc), the slot values its closure    *)
(* captured and still uses, and the outcome of the fetch it began.         *)
(***************************************************************************)
\* a key of quickEditPrompts
QuickEditKeys == {"BG1"}
RewriteSizes == {80, 150}
\* const manualPrompt of handleManualPrompt
ManualPrompt == "manual prompt"
Prompts == {"", " ", ManualPrompt}
\* the prompt test without the trim (a plausible slip)
NonEmptyUntrimmed(p) == p # ""

\* editPrompt.trim() is non-empty
TrimNonEmpty(p) == p \notin {"", " "}

Task(kind, pc, cap, ed, fetched) ==
    [kind |-> kind, pc |-> pc, capturedFrameUrl |-> cap, editedFrameUrl |-> ed,
     fetched |-> fetched]

\* fetch(url) of an object URL succeeds while the URL is live
FetchOk(slot, u) == u # NullUrl /\ urls[slot][u] = "live"

\* the explicit revocations of the capture handlers: the closure's two slot values
RevokeBoth(t) == {<<"captured", t.capturedFrameUrl>>, <<"edited", t.editedFrameUrl>>}

\* handleImageFileChange with an image file chosen (Open Image / Open)
\* handleImageFileChange without setEditedFrameUrl(null) (a plausible slip: the
\* revoked URL of the edited image stays in the state)
handleImageFileChangeKeepsEdited ==
    /\ mounted /\ ~isAnyTaskRunning(app)
    /\ LET revoked == {<<"captured", app.capturedFrameUrl>>, <<"edited", app.editedFrameUrl>>}
       IN  /\ CanCreate("captured", tasks, revoked)
           /\ Commit([app EXCEPT !.capturedFrameUrl = FreshUrl("captured", tasks, revoked),
                                 !.externalImageFile = "image.png", !.editPrompt = "",
                                 !.isImagePreviewVisible = TRUE],
                     tasks, {"captured"}, revoked)
    /\ UNCHANGED <<mounted, metaLoaders, textReaders, analyses>>
    /\ UNCHANGED <<fmtVars, samplerVars, apiKey, loaderUrl>>

handleImageFileChange ==
    /\ mounted /\ ~isAnyTaskRunning(app)
    /\ LET revoked == {<<"captured", app.capturedFrameUrl>>, <<"edited", app.editedFrameUrl>>}
       IN  /\ CanCreate("captured", tasks, revoked)
           /\ Commit([app EXCEPT !.capturedFrameUrl = FreshUrl("captured", tasks, revoked),
                                 !.editedFrameUrl = NullUrl,
                                 !.externalImageFile = "image.png", !.editPrompt = "",
                                 !.isImagePreviewVisible = TRUE],
                     tasks, {"captured"}, revoked)
    /\ UNCHANGED <<mounted, metaLoaders, textReaders, analyses>>
    /\ UNCHANGED <<fmtVars, samplerVars, apiKey, loaderUrl>>

\* handleCaptureFrame up to canvas.toBlob; without a canvas context the flag is set
\* and cleared in the same handler, which leaves the state as it was
handleCaptureFrame ==
    /\ mounted /\ VideoRendered(app) /\ ~isAnyTaskRunning(app)
    /\ app.videoFile # Null /\ PendingOps < MaxPending
    /\ Commit([app EXCEPT !.isCapturingFrame = TRUE],
              Append(tasks, Task("captureFrame", "toBlob", app.capturedFrameUrl,
                                 app.editedFrameUrl, TRUE)),
              {}, {})
    /\ UNCHANGED <<mounted, metaLoaders, textReaders, analyses>>
    /\ UNCHANGED <<fmtVars, samplerVars, apiKey, loaderUrl>>

\* the callback of canvas.toBlob in handleCaptureFrame
CaptureFrameBlob(i, blobOk) ==
    /\ i \in 1..Len(tasks)
    /\ tasks[i].kind = "captureFrame"
    /\ LET ts == RemoveAt(tasks, i)
           revoked == RevokeBoth(tasks[i])
       IN  IF ~blobOk
           THEN Commit([app EXCEPT !.isCapturingFrame = FALSE], ts, {}, {})
           ELSE /\ CanCreate("captured", ts, revoked)
                /\ Commit([app EXCEPT !.capturedFrameUrl = FreshUrl("captured", ts, revoked),
                                      !.isImagePreviewVisible = TRUE,
                                      !.editedFrameUrl = NullUrl,
                                      !.externalImageFile = Null,
                                      !.isCapturingFrame = FALSE],
                          ts, {"captured"}, revoked)
    /\ UNCHANGED <<mounted, metaLoaders, textReaders, analyses>>
    /\ UNCHANGED <<fmtVars, samplerVars, apiKey, loaderUrl>>

\* handleCaptureText up to await processFrameForTextExtraction; without a canvas
\* context the throw is caught before any await
handleCaptureText ==
    /\ mounted /\ VideoRendered(app) /\ ~isAnyTaskRunning(app)
    /\ app.videoFile # Null /\ ~app.isCapturing /\ PendingOps < MaxPending
    /\ \E hasContext \in BOOLEAN :
          IF hasContext
          THEN Commit([app EXCEPT !.isCapturing = TRUE, !.error = Null],
                      Append(tasks, Task("captureText", "generateContent",
                                         app.capturedFrameUrl, app.editedFrameUrl, TRUE)),
                      {}, {})
          ELSE Commit([app EXCEPT !.error = ThrownMessage], tasks, {}, {})
    /\ UNCHANGED <<mounted, metaLoaders, textReaders, analyses>>
    /\ UNCHANGED <<fmtVars, samplerVars, apiKey, loaderUrl>>

\* processFrameForTextExtraction returns an image: the rest of the try block and
\* the finally of handleCaptureText
CaptureTextSucceeded(i) ==
    /\ i \in 1..Len(tasks)
    /\ tasks[i].kind = "captureText"
    /\ LET ts == RemoveAt(tasks, i)
           revoked == RevokeBoth(tasks[i])
       IN  /\ CanCreate("captured", ts, revoked)
           /\ Commit([app EXCEPT !.capturedFrameUrl = FreshUrl("captured", ts, revoked),
                                 !.isImagePreviewVisible = TRUE,
                                 !.editedFrameUrl = NullUrl, !.externalImageFile = Null,
                                 !.isCapturing = FALSE],
                     ts, {"captured"}, revoked)
    /\ UNCHANGED <<mounted, metaLoaders, textReaders, analyses>>
    /\ UNCHANGED <<fmtVars, samplerVars, apiKey, loaderUrl>>

\* a catch of handleCaptureText that reports the failure through status as well, as
\* the catch of handleAnalyzeClick does (a plausible slip)
CaptureTextFailedSetsStatus(i) ==
    /\ i \in 1..Len(tasks)
    /\ tasks[i].kind = "captureText"
    /\ Commit([app EXCEPT !.error = ThrownMessage, !.status = "error",
                          !.isCapturing = FALSE],
              RemoveAt(tasks, i), {}, {})
    /\ UNCHANGED <<mounted, metaLoaders, textReaders, analyses>>
    /\ UNCHANGED <<fmtVars, samplerVars, apiKey, loaderUrl>>

\* processFrameForTextExtraction throws (service error, or no image in the
\* response): the catch and the finally of handleCaptureText
CaptureTextFailed(i) ==
    /\ i \in 1..Len(tasks)
    /\ tasks[i].kind = "captureText"
    /\ Commit([app EXCEPT !.error = ThrownMessage, !.isCapturing = FALSE],
              RemoveAt(tasks, i), {}, {})
    /\ UNCHANGED <<mounted, metaLoaders, textReaders, analyses>>
    /\ UNCHANGED <<fmtVars, samplerVars, apiKey, loaderUrl>>

\* handleReWriteFrame up to await canvas.toBlob; without a canvas context the
\* throw is caught before any await
handleReWriteFrame ==
    /\ mounted /\ VideoRendered(app) /\ ~isAnyTaskRunning(app)
    /\ app.videoFile # Null /\ PendingOps < MaxPending
    /\ \E hasContext \in BOOLEAN :
          IF hasContext
          THEN Commit([app EXCEPT !.isReWriting = TRUE, !.error = Null],
                      Append(tasks, Task("reWriteFrame", "toBlob",
                                         app.capturedFrameUrl, app.editedFrameUrl, TRUE)),
                      {}, {})
          ELSE Commit([app EXCEPT !.error = ThrownMessage], tasks, {}, {})
    /\ UNCHANGED <<mounted, metaLoaders, textReaders, analyses>>
    /\ UNCHANGED <<fmtVars, samplerVars, apiKey, loaderUrl>>

\* handleReWriteFrame from the blob to await editImage (step 1 of the handler); the
\* closure's slot values are not used after this step
ReWriteFrameBlob(i, blobOk) ==
    /\ i \in 1..Len(tasks)
    /\ tasks[i].kind = "reWriteFrame" /\ tasks[i].pc = "toBlob"
    /\ LET ts == [tasks EXCEPT ![i] = Task("reWriteFrame", "generateContent",
                                           NullUrl, NullUrl, TRUE)]
           revoked == RevokeBoth(tasks[i])
       IN  IF ~blobOk
           THEN Commit([app EXCEPT !.error = ThrownMessage, !.isReWriting = FALSE],
                       RemoveAt(tasks, i), {}, {})
           ELSE /\ CanCreate("captured", ts, revoked)
                /\ Commit([app EXCEPT !.capturedFrameUrl = FreshUrl("captured", ts, revoked),
                                      !.isImagePreviewVisible = TRUE,
                                      !.externalImageFile = Null,
                                      !.editedFrameUrl = NullUrl],
                          ts, {"captured"}, revoked)
    /\ UNCHANGED <<mounted, metaLoaders, textReaders, analyses>>
    /\ UNCHANGED <<fmtVars, samplerVars, apiKey, loaderUrl>>

\* editImage returns an image: steps 3 and 4 and the finally of handleReWriteFrame
ReWriteFrameSucceeded(i) ==
    /\ i \in 1..Len(tasks)
    /\ tasks[i].kind = "reWriteFrame" /\ tasks[i].pc = "generateContent"
    /\ LET ts == RemoveAt(tasks, i)
       IN  /\ CanCreate("edited", ts, {})
           /\ Commit([app EXCEPT !.editedFrameUrl = FreshUrl("edited", ts, {}),
                                 !.isReWriting = FALSE],
                     ts, {"edited"}, {})
    /\ UNCHANGED <<mounted, metaLoaders, textReaders, analyses>>
    /\ UNCHANGED <<fmtVars, samplerVars, apiKey, loaderUrl>>

\* editImage throws: the catch and the finally of handleReWriteFrame
ReWriteFrameFailed(i) ==
    /\ i \in 1..Len(tasks)
    /\ tasks[i].kind = "reWriteFrame" /\ tasks[i].pc = "generateContent"
    /\ Commit([app EXCEPT !.error = ThrownMessage, !.isReWriting = FALSE],
              RemoveAt(tasks, i), {}, {})
    /\ UNCHANGED <<mounted, metaLoaders, textReaders, analyses>>
    /\ UNCHANGED <<fmtVars, samplerVars, apiKey, loaderUrl>>

\* performImageEdit up to its first await, fetch(capturedFrameUrl)
performImageEdit(a, kind) ==
    Commit([a EXCEPT !.isEditing = TRUE, !.error = Null],
           Append(tasks, Task(kind, "generateContent", NullUrl, app.editedFrameUrl,
                              FetchOk("captured", app.capturedFrameUrl))),
           {}, {})

\* handleEditImage up to the first await of performImageEdit; its guard returns
\* at once
handleEditImageCall ==
    IF app.capturedFrameUrl = NullUrl \/ ~TrimNonEmpty(app.editPrompt) \/ app.isEditing
    THEN UNCHANGED <<app, urls, tasks>>
    ELSE /\ PendingOps < MaxPending
         /\ performImageEdit(app, "handleEditImage")

\* a click on Apply Edit
handleEditImage ==
    /\ mounted /\ PreviewRendered(app)
    /\ TrimNonEmpty(app.editPrompt) /\ ~isAnyTaskRunning(app)
    /\ handleEditImageCall
    /\ UNCHANGED <<mounted, metaLoaders, textReaders, analyses>>
    /\ UNCHANGED <<fmtVars, samplerVars, apiKey, loaderUrl>>

\* handleQuickEdit up to the first await of performImageEdit; a key without an
\* entry in QUICK_EDIT_PROMPTS gives an undefined prompt
handleQuickEditCall(key) ==
    IF app.capturedFrameUrl = NullUrl \/ key \notin QuickEditKeys \/ app.isEditing
    THEN UNCHANGED <<app, urls, tasks>>
    ELSE /\ PendingOps < MaxPending
         /\ performImageEdit([app EXCEPT !.quickEditLoadingKey = key], "handleQuickEdit")

\* a click on a quick edit button
handleQuickEdit(key) ==
    /\ mounted /\ PreviewRendered(app) /\ ~isAnyTaskRunning(app)
    /\ handleQuickEditCall(key)
    /\ UNCHANGED <<mounted, metaLoaders, textReaders, analyses>>
    /\ UNCHANGED <<fmtVars, samplerVars, apiKey, loaderUrl>>

\* what follows await performImageEdit in the handler that called it
AfterImageEdit(a, kind) ==
    IF kind = "handleEditImage" THEN [a EXCEPT !.editPrompt = ""] ELSE a

\* editImage returns an image: the rest of the try block and the finally of
\* performImageEdit, then the rest of its caller
ImageEditSucceeded(i) ==
    /\ i \in 1..Len(tasks)
    /\ tasks[i].kind \in {"handleEditImage", "handleQuickEdit"} /\ tasks[i].fetched
    /\ LET ts == RemoveAt(tasks, i)
           revoked == {<<"edited", tasks[i].editedFrameUrl>>}
       IN  /\ CanCreate("edited", ts, revoked)
           /\ Commit(AfterImageEdit([app EXCEPT !.editedFrameUrl =
                                                    FreshUrl("edited", ts, revoked),
                                                !.isEditing = FALSE,
                                                !.quickEditLoadingKey = Null],
                                    tasks[i].kind),
                     ts, {"edited"}, revoked)
    /\ UNCHANGED <<mounted, metaLoaders, textReaders, analyses>>
    /\ UNCHANGED <<fmtVars, samplerVars, apiKey, loaderUrl>>

\* the fetch of the preview URL or editImage throws: the catch and the finally of
\* performImageEdit, then the rest of its caller
ImageEditFailed(i) ==
    /\ i \in 1..Len(tasks)
    /\ tasks[i].kind \in {"handleEditImage", "handleQuickEdit"}
    /\ Commit(AfterImageEdit([app EXCEPT !.error = ThrownMessage, !.isEditing = FALSE,
                                         !.quickEditLoadingKey = Null],
                             tasks[i].kind),
              RemoveAt(tasks, i), {}, {})
    /\ UNCHANGED <<mounted, metaLoaders, textReaders, analyses>>
    /\ UNCHANGED <<fmtVars, samplerVars, apiKey, loaderUrl>>

\* the Re-Write button of the preview panel toggles the size popup
ToggleReWritePopup ==
    /\ mounted /\ PreviewRendered(app) /\ ~isAnyTaskRunning(app)
    /\ Commit([app EXCEPT !.isReWritePopupOpen = ~@], tasks, {}, {})
    /\ UNCHANGED <<mounted, metaLoaders, textReaders, analyses>>
    /\ UNCHANGED <<fmtVars, samplerVars, apiKey, loaderUrl>>

\* handleClickOutside: a mousedown outside the popup closes it
handleClickOutside ==
    /\ mounted /\ PreviewRendered(app) /\ app.isReWritePopupOpen
    /\ Commit([app EXCEPT !.isReWritePopupOpen = FALSE], tasks, {}, {})
    /\ UNCHANGED <<mounted, metaLoaders, textReaders, analyses>>
    /\ UNCHANGED <<fmtVars, samplerVars, apiKey, loaderUrl>>

\* handleReWriteFromPopup up to its first await, fetch(capturedFrameUrl); the size
\* only enters the prompt
handleReWriteFromPopup(size) ==
    /\ mounted /\ PreviewRendered(app) /\ app.isReWritePopupOpen
    /\ app.capturedFrameUrl # NullUrl /\ ~isAnyTaskRunning(app) /\ PendingOps < MaxPending
    /\ Commit([app EXCEPT !.isReWritePopupOpen = FALSE, !.isReWritingFromPopup = TRUE,
                          !.error = Null],
              Append(tasks, Task("handleReWriteFromPopup", "generateContent", NullUrl,
                                 app.editedFrameUrl,
                                 FetchOk("captured", app.capturedFrameUrl))),
              {}, {})
    /\ UNCHANGED <<mounted, metaLoaders, textReaders, analyses>>
    /\ UNCHANGED <<fmtVars, samplerVars, apiKey, loaderUrl>>

\* editImage returns an image: the rest of the try block and the finally of
\* handleReWriteFromPopup
ReWriteFromPopupSucceeded(i) ==
    /\ i \in 1..Len(tasks)
    /\ tasks[i].kind = "handleReWriteFromPopup" /\ tasks[i].fetched
    /\ LET ts == RemoveAt(tasks, i)
           revoked == {<<"edited", tasks[i].editedFrameUrl>>}
       IN  /\ CanCreate("edited", ts, revoked)
           /\ Commit([app EXCEPT !.editedFrameUrl = FreshUrl("edited", ts, revoked),
                                 !.isReWritingFromPopup = FALSE],
                     ts, {"edited"}, revoked)
    /\ UNCHANGED <<mounted, metaLoaders, textReaders, analyses>>
    /\ UNCHANGED <<fmtVars, samplerVars, apiKey, loaderUrl>>

\* the fetch or editImage throws: the catch and the finally of handleReWriteFromPopup
ReWriteFromPopupFailed(i) ==
    /\ i \in 1..Len(tasks)
    /\ tasks[i].kind = "handleReWriteFromPopup"
    /\ Commit([app EXCEPT !.error = ThrownMessage, !.isReWritingFromPopup = FALSE],
              RemoveAt(tasks, i), {}, {})
    /\ UNCHANGED <<mounted, metaLoaders, textReaders, analyses>>
    /\ UNCHANGED <<fmtVars, samplerVars, apiKey, loaderUrl>>

\* handleEditAgain (the Edit button under the edited image, never disabled) up to
\* await fetch(editedFrameUrl)
handleEditAgain ==
    /\ mounted /\ PreviewRendered(app) /\ app.editedFrameUrl # NullUrl
    /\ PendingOps < MaxPending
    /\ Commit(app,
              Append(tasks, Task("handleEditAgain", "fetch", app.capturedFrameUrl, NullUrl,
                                 FetchOk("edited", app.editedFrameUrl))),
              {}, {})
    /\ UNCHANGED <<mounted, metaLoaders, textReaders, analyses>>
    /\ UNCHANGED <<fmtVars, samplerVars, apiKey, loaderUrl>>

\* the rest of handleEditAgain; a rejected fetch is not caught and ends it
EditAgainFetched(i) ==
    /\ i \in 1..Len(tasks)
    /\ tasks[i].kind = "handleEditAgain"
    /\ LET ts == RemoveAt(tasks, i)
           revoked == {<<"captured", tasks[i].capturedFrameUrl>>}
       IN  IF ~tasks[i].fetched
           THEN Commit(app, ts, {}, {})
           ELSE /\ CanCreate("captured", ts, revoked)
                /\ Commit([app EXCEPT !.capturedFrameUrl =
                                          FreshUrl("captured", ts, revoked),
                                      !.editedFrameUrl = NullUrl],
                          ts, {"captured"}, revoked)
    /\ UNCHANGED <<mounted, metaLoaders, textReaders, analyses>>
    /\ UNCHANGED <<fmtVars, samplerVars, apiKey, loaderUrl>>

\* handleManualPrompt
handleManualPrompt ==
    /\ mounted /\ PreviewRendered(app) /\ ~isAnyTaskRunning(app)
    /\ Commit([app EXCEPT !.editPrompt = ManualPrompt], tasks, {}, {})
    /\ UNCHANGED <<mounted, metaLoaders, textReaders, analyses>>
    /\ UNCHANGED <<fmtVars, samplerVars, apiKey, loaderUrl>>

\* onChange of the prompt textarea (disabled while a task runs)
EditPromptChange(p) ==
    /\ mounted /\ PreviewRendered(app) /\ ~isAnyTaskRunning(app)
    /\ app.editPrompt # p
    /\ Commit([app EXCEPT !.editPrompt = p], tasks, {}, {})
    /\ UNCHANGED <<mounted, metaLoaders, textReaders, analyses>>
    /\ UNCHANGED <<fmtVars, samplerVars, apiKey, loaderUrl>>

\* the transcript textarea is rendered in the results panel when there is a
\* transcription or a text
TextareaRendered(a) ==
    ResultsPanelRendered(a) /\ (a.transcriptions # <<>> \/ a.editableText # <<>>)

\* what the user leaves in the textarea after typing: nothing, or a text
TypedTexts == {<<>>, <<"t">>}

\* onChange of the transcript textarea
EditableTextChange(value) ==
    /\ mounted /\ TextareaRendered(app) /\ app.editableText # value
    /\ Commit([app EXCEPT !.editableText = value], tasks, {}, {})
    /\ UNCHANGED <<mounted, metaLoaders, textReaders, analyses>>
    /\ UNCHANGED <<fmtVars, samplerVars, apiKey, loaderUrl>>

\* the selection of the textarea lies within its first MaxCursor characters
MaxCursor == 1
\* the longest text a click on the timestamp button makes longer: one typed
\* character and one timestamp
MaxEditableLen == 6

\* textarea.selectionStart and textarea.selectionEnd: wherever the user has left
\* the cursor or the selection
Selections(text) ==
    {sel \in (0..Min(MaxCursor, Len(text))) \X (0..Min(MaxCursor, Len(text))) :
        sel[1] <= sel[2]}

\* a click on the timestamp button; without a textarea the handler returns at once
InsertTimestampClick ==
    /\ mounted /\ ResultsPanelRendered(app) /\ TextareaRendered(app)
    /\ \E newText \in {handleInsertTimestamp(app.editableText, sel[1], sel[2],
                                              app.videoCurrentTime) :
                            sel \in Selections(app.editableText)} :
          /\ newText # app.editableText
          /\ Len(newText) > Len(app.editableText) => Len(newText) <= MaxEditableLen
          /\ Commit([app EXCEPT !.editableText = newText], tasks, {}, {})
    /\ UNCHANGED <<mounted, metaLoaders, textReaders, analyses>>
    /\ UNCHANGED <<fmtVars, samplerVars, apiKey, loaderUrl>>

\* the component is unmounted: the three URL effects clean up and the state of
\* the component is gone; the invocations, loaders and readers that are pending
\* stay pending and run to their end afterwards
Unmount ==
    /\ mounted
    /\ mounted' = FALSE
    /\ app' = AppInitial
    /\ urls' = UrlsAfter(AppInitial, tasks, {}, {})
    /\ UNCHANGED <<tasks, analyses, metaLoaders, textReaders>>
    /\ UNCHANGED <<fmtVars, samplerVars, apiKey, loaderUrl>>

AppInit ==
    /\ fIn = NoFormatCall /\ fOut = NoResult
    /\ sIn = NoSamplerInput
    /\ sPc = "idle" /\ sDuration = NullNum /\ sCurrentTime = 0 /\ sVideoTime = 0
    /\ sFrames = <<>> /\ sSeeks = <<>> /\ sProgress = <<>> /\ sHandlers = {} /\ sSrcUrl = "none"
    /\ apiKey = NoApiKey /\ loaderUrl = "none"
    /\ app = AppInitial /\ mounted = TRUE /\ urls = NoUrls
    /\ metaLoaders = NoLoaders /\ textReaders = 0 /\ analyses = <<>> /\ tasks = <<>>

Next ==
    \/ \E file \in VideoFiles : handleFileChange(file)
    \/ \E file \in VideoFiles : MetadataLoaded(file)
    \/ \E file \in VideoFiles : MetadataError(file)
    \/ \E currentTime \in VideoTimes : onTimeUpdate(currentTime)
    \/ handleTextFileChange
    \/ TextFileLoaded
    \/ TextFileError
    \/ \E value \in TypedTexts : EditableTextChange(value)
    \/ InsertTimestampClick
    \/ handleAnalyzeClick
    \/ \E i \in 1..MaxAnalyses : AnalysisFramesResolved(i)
    \/ \E i \in 1..MaxAnalyses : AnalysisFramesRejected(i)
    \/ \E i \in 1..MaxAnalyses : AnalysisMediaErrorUnhandled(i)
    \/ \E i \in 1..MaxAnalyses, results \in AnalysisResults : AnalysisSucceeded(i, results)
    \/ \E i \in 1..MaxAnalyses : AnalysisServiceFailed(i)
    \/ handleImageFileChange
    \/ handleCaptureFrame
    \/ \E i \in 1..MaxPending, blobOk \in BOOLEAN : CaptureFrameBlob(i, blobOk)
    \/ handleCaptureText
    \/ \E i \in 1..MaxPending : CaptureTextSucceeded(i)
    \/ \E i \in 1..MaxPending : CaptureTextFailed(i)
    \/ handleReWriteFrame
    \/ \E i \in 1..MaxPending, blobOk \in BOOLEAN : ReWriteFrameBlob(i, blobOk)
    \/ \E i \in 1..MaxPending : ReWriteFrameSucceeded(i)
    \/ \E i \in 1..MaxPending : ReWriteFrameFailed(i)
    \/ handleEditImage
    \/ \E key \in QuickEditKeys : handleQuickEdit(key)
    \/ \E i \in 1..MaxPending : ImageEditSucceeded(i)
    \/ \E i \in 1..MaxPending : ImageEditFailed(i)
    \/ ToggleReWritePopup
    \/ handleClickOutside
    \/ \E size \in RewriteSizes : handleReWriteFromPopup(size)
    \/ \E i \in 1..MaxPending : ReWriteFromPopupSucceeded(i)
    \/ \E i \in 1..MaxPending : ReWriteFromPopupFailed(i)
    \/ handleEditAgain
    \/ \E i \in 1..MaxPending : EditAgainFetched(i)
    \/ handleManualPrompt
    \/ \E p \in Prompts : EditPromptChange(p)
    \/ Unmount

Spec == AppInit /\ [][Next]_vars

(***************************************************************************)
(* The scan of a generateContent response for an image, as                 *)
(* processFrameForTextExtraction and editImage do it after their await.    *)
(* An absent candidates, content, parts, inlineData or mimeType is a FALSE  *)
(* has-flag.                                                               *)
(***************************************************************************)
MaxCandidates == 2
MaxParts == 2

ImagePng == <<"i", "m", "a", "g", "e", "/", "p", "n", "g">>
ImageJpeg == <<"i", "m", "a", "g", "e", "/", "j", "p", "e", "g">>
TextPlain == <<"t", "e", "x", "t", "/", "p", "l", "a", "i", "n">>

\* the parts a response may hold: a text part, inline data of some media type, or
\* inline data that names no media type (mimeType is optional in the response)
TextPart == [hasInlineData |-> FALSE, hasMimeType |-> FALSE, mimeType |-> <<>>, data |-> ""]
InlinePart(mimeType, data) ==
    [hasInlineData |-> TRUE, hasMimeType |-> TRUE, mimeType |-> mimeType, data |-> data]
InlinePartNoMimeType(data) ==
    [hasInlineData |-> TRUE, hasMimeType |-> FALSE, mimeType |-> <<>>, data |-> data]
ResponseParts ==
    {TextPart, InlinePart(ImagePng, "PNG"), InlinePart(ImageJpeg, "JPEG"),
     InlinePart(TextPlain, "TXT"), InlinePartNoMimeType("RAW")}

PartLists == UNION {[1..n -> ResponseParts] : n \in 0..MaxParts}
ResponseCandidates ==
    {[hasContent |-> FALSE, hasParts |-> FALSE, parts |-> <<>>],
     [hasContent |-> TRUE, hasParts |-> FALSE, parts |-> <<>>]}
    \cup [hasContent : {TRUE}, hasParts : {TRUE}, parts : PartLists]
Responses ==
    {[hasCandidates |-> FALSE, candidates |-> <<>>]}
    \cup [hasCandidates : {TRUE},
          candidates : UNION {[1..n -> ResponseCandidates] : n \in 0..MaxCandidates}]

\* String.prototype.startsWith
StartsWith(str, prefix) ==
    /\ Len(str) >= Len(prefix)
    /\ \A i \in 1..Len(prefix) : str[i] = prefix[i]

\* part.inlineData && part.inlineData.mimeType.startsWith('image/'), for a part
\* whose inlineData names a media type
IsInlineImage(part) ==
    part.hasInlineData /\ StartsWith(part.mimeType, <<"i", "m", "a", "g", "e", "/">>)

\* the same test on inline data without mimeType calls startsWith on undefined
StartsWithOfUndefined(part) == part.hasInlineData /\ ~part.hasMimeType

\* the message of the TypeError that call raises
TypeErrorMessage == "Cannot read properties of undefined (reading 'startsWith')"

Returned(value) == [thrown |-> Null, value |-> value]
Thrown(message) == [thrown |-> message, value |-> ""]

\* the for loop over the parts, then the throw after the if; a TypeError raised
\* in the loop leaves the function at once
RECURSIVE ScanParts(_, _)
ScanParts(parts, message) ==
    IF parts = <<>> THEN Thrown(message)
    ELSE IF StartsWithOfUndefined(Head(parts)) THEN Thrown(TypeErrorMessage)
    ELSE IF IsInlineImage(Head(parts)) THEN Returned(Head(parts).data)
    ELSE ScanParts(Tail(parts), message)

ScanResponse(response, message) ==
    IF /\ response.hasCandidates /\ Len(response.candidates) > 0
       /\ response.candidates[1].hasContent /\ response.candidates[1].hasParts
    THEN ScanParts(response.candidates[1].parts, message)
    ELSE Thrown(message)

NoGeneratedImage ==
    "Could not find generated image in the API response. The request may have been blocked due to safety policies."
NoEditedImage ==
    "Could not find edited image in the API response. The request may have been blocked due to safety policies."

processFrameForTextExtraction(response) == ScanResponse(response, NoGeneratedImage)
editImage(response) == ScanResponse(response, NoEditedImage)

ImageCalls == [fn : {"processFrameForTextExtraction", "editImage"}, response : Responses]

CallProcessFrameForTextExtraction ==
    /\ ~fOut.done /\ fIn.fn = "processFrameForTextExtraction"
    /\ fOut' = Result(processFrameForTextExtraction(fIn.response))
    /\ UNCHANGED <<fIn, apiKey, samplerVars, uiVars>>

CallEditImage ==
    /\ ~fOut.done /\ fIn.fn = "editImage"
    /\ fOut' = Result(editImage(fIn.response))
    /\ UNCHANGED <<fIn, apiKey, samplerVars, uiVars>>

ImageInit ==
    /\ fIn \in ImageCalls /\ fOut = NoResult
    /\ sIn = NoSamplerInput
    /\ sPc = "idle" /\ sDuration = NullNum /\ sCurrentTime = 0 /\ sVideoTime = 0
    /\ sFrames = <<>> /\ sSeeks = <<>> /\ sProgress = <<>> /\ sHandlers = {} /\ sSrcUrl = "none"
    /\ apiKey = NoApiKey /\ loaderUrl = "none"
    /\ app = AppInitial /\ mounted = TRUE /\ urls = NoUrls
    /\ metaLoaders = NoLoaders /\ textReaders = 0 /\ analyses = <<>> /\ tasks = <<>>

SpecImage == ImageInit /\ [][CallProcessFrameForTextExtraction \/ CallEditImage]_vars

(***************************************************************************)
(* Loading files one after the other: the upload buttons, the metadata     *)
(* loaders and the text-file readers, with several loaders pending at once.*)
(***************************************************************************)
MaxPendingLoads == 2

LoadVideo(file) ==
    /\ mounted
    /\ LoadersPending < MaxPendingLoads
    /\ handleFileChangeCall(file)

LoadInit ==
    /\ fIn = NoFormatCall /\ fOut = NoResult
    /\ sIn = NoSamplerInput
    /\ sPc = "idle" /\ sDuration = NullNum /\ sCurrentTime = 0 /\ sVideoTime = 0
    /\ sFrames = <<>> /\ sSeeks = <<>> /\ sProgress = <<>> /\ sHandlers = {} /\ sSrcUrl = "none"
    /\ apiKey = NoApiKey /\ loaderUrl = "none"
    /\ app = AppInitial /\ mounted = TRUE /\ urls = NoUrls
    /\ metaLoaders = NoLoaders /\ textReaders = 0 /\ analyses = <<>> /\ tasks = <<>>

LoadNext ==
    \/ \E file \in VideoFiles : LoadVideo(file)
    \/ \E file \in VideoFiles : MetadataLoaded(file)
    \/ \E file \in VideoFiles : MetadataError(file)
    \/ \E currentTime \in VideoTimes : onTimeUpdate(currentTime)
    \/ handleImageFileChange
    \/ handleTextFileChange
    \/ TextFileLoaded
    \/ TextFileError

SpecLoad == LoadInit /\ [][LoadNext]_vars

(***************************************************************************)
(* The guarded handlers called directly: one call of handleAnalyzeClick,   *)
(* handleEditImage or handleQuickEdit in a state of the App, whatever the  *)
(* buttons show.                                                           *)
(***************************************************************************)
\* a key that QUICK_EDIT_PROMPTS has no entry for
UnknownKey == "NOKEY"

HandlerCalls ==
    [fn : {"handleAnalyzeClick", "handleEditImage"}, key : {Null}]
    \cup [fn : {"handleQuickEdit"}, key : QuickEditKeys \cup {UnknownKey}]

\* states of the App before the call: with or without a loaded video, with or
\* without an opened image, any edit prompt beside the image, an edit running or not
WithVideo(g) ==
    [app |-> [g.app EXCEPT !.videoFile = "good.mp4", !.videoUrl = 1,
                           !.videoDuration = DurationOf("good.mp4")],
     urls |-> [g.urls EXCEPT !["video"][1] = "live"], tasks |-> g.tasks]

WithImage(g, p) ==
    [app |-> [g.app EXCEPT !.externalImageFile = "image.png", !.capturedFrameUrl = 1,
                           !.isImagePreviewVisible = TRUE, !.editPrompt = p],
     urls |-> [g.urls EXCEPT !["captured"][1] = "live"], tasks |-> g.tasks]

WithEditRunning(g) ==
    [app |-> [g.app EXCEPT !.isEditing = TRUE, !.quickEditLoadingKey = "BG1"],
     urls |-> g.urls,
     tasks |-> <<Task("handleQuickEdit", "generateContent", NullUrl,
                      g.app.editedFrameUrl, TRUE)>>]

HandlerStates ==
    LET empty == [app |-> AppInitial, urls |-> NoUrls, tasks |-> <<>>]
        files == {empty, WithVideo(empty)}
        images == {WithImage(g, p) : g \in files, p \in Prompts}
    IN  files \cup images \cup {WithEditRunning(g) : g \in images}

CallHandleAnalyzeClick ==
    /\ ~fOut.done /\ fIn.fn = "handleAnalyzeClick"
    /\ fOut' = Result(<<>>)
    /\ handleAnalyzeClickCall
    /\ UNCHANGED <<fIn, apiKey, samplerVars, mounted, loaderUrl, metaLoaders, textReaders>>

CallHandleEditImage ==
    /\ ~fOut.done /\ fIn.fn = "handleEditImage"
    /\ fOut' = Result(<<>>)
    /\ handleEditImageCall
    /\ UNCHANGED <<fIn, apiKey, samplerVars, mounted, loaderUrl, metaLoaders, textReaders, analyses>>

CallHandleQuickEdit ==
    /\ ~fOut.done /\ fIn.fn = "handleQuickEdit"
    /\ fOut' = Result(<<>>)
    /\ handleQuickEditCall(fIn.key)
    /\ UNCHANGED <<fIn, apiKey, samplerVars, mounted, loaderUrl, metaLoaders, textReaders, analyses>>

HandlerInit ==
    /\ fIn \in HandlerCalls /\ fOut = NoResult
    /\ sIn = NoSamplerInput
    /\ sPc = "idle" /\ sDuration = NullNum /\ sCurrentTime = 0 /\ sVideoTime = 0
    /\ sFrames = <<>> /\ sSeeks = <<>> /\ sProgress = <<>> /\ sHandlers = {} /\ sSrcUrl = "none"
    /\ apiKey = NoApiKey /\ loaderUrl = "none"
    /\ \E g \in HandlerStates : app = g.app /\ urls = g.urls /\ tasks = g.tasks
    /\ mounted = TRUE
    /\ metaLoaders = NoLoaders /\ textReaders = 0 /\ analyses = <<>>

HandlerNext == CallHandleAnalyzeClick \/ CallHandleEditImage \/ CallHandleQuickEdit

SpecHandlers == HandlerInit /\ [][HandlerNext]_vars

(***************************************************************************)
(* The API credential: the init effect, the API key field and its Send and *)
(* Clear buttons, and the credential a request to the AI service carries.  *)
(* sentKey and lastOp are history: the key of the last Send that took      *)
(* effect (none after a Clear), and the last operation.                    *)
(***************************************************************************)
MaxRequests == 2

UserKeys == {"K1", "K2"}
BuildKeys == {"", "undefined", "ENVKEY"}
\* what the user leaves in the API key field: nothing, the placeholder, a blank,
\* a key of their own, or the key of the build
KeyInputs == {"", NoApiKeyPlaceholder, " ", "ENVKEY"} \cup UserKeys

\* the init effect: the stored key wins over the key of the build
initApiKey(k) ==
    [k EXCEPT !.apiKeyInput =
                  IF k.localStorage # Null THEN k.localStorage
                  ELSE IF k.envApiKey # "" /\ k.envApiKey # "undefined" THEN k.envApiKey
                  ELSE NoApiKeyPlaceholder,
              !.envApiKey = IF k.localStorage # Null THEN k.localStorage ELSE @]

\* a Send that stores the key without handing it to the requests (a plausible slip)
sendApiKeyStoresOnly(k) ==
    IF k.apiKeyInput # "" /\ k.apiKeyInput # NoApiKeyPlaceholder
    THEN [k EXCEPT !.localStorage = k.apiKeyInput]
    ELSE k

\* the body of handleSendApiKey
sendApiKey(k) ==
    IF k.apiKeyInput # "" /\ k.apiKeyInput # NoApiKeyPlaceholder
    THEN [k EXCEPT !.localStorage = k.apiKeyInput, !.envApiKey = k.apiKeyInput]
    ELSE k

\* a Clear that forgets the stored key and leaves process.env.API_KEY as it is
\* (a plausible slip)
clearApiKeyKeepsEnv(k) ==
    [k EXCEPT !.localStorage = Null, !.apiKeyInput = NoApiKeyPlaceholder]

\* the body of handleClearApiKey
clearApiKey(k) ==
    [k EXCEPT !.localStorage = Null, !.apiKeyInput = NoApiKeyPlaceholder,
              !.envApiKey = ""]

\* onChange of the API key field
ApiKeyInputChange(input) ==
    /\ apiKey.apiKeyInput # input
    /\ apiKey' = [apiKey EXCEPT !.apiKeyInput = input, !.lastOp = "input"]
    /\ UNCHANGED <<fmtVars, samplerVars, uiVars>>

\* the test of handleSendApiKey: apiKeyInput && apiKeyInput !== 'no API key'
SendTakesEffect(input) == input # "" /\ input # NoApiKeyPlaceholder

\* a click on Send
handleSendApiKey ==
    /\ apiKey' = [sendApiKey(apiKey) EXCEPT
                     !.sentKey = IF SendTakesEffect(apiKey.apiKeyInput)
                                 THEN apiKey.apiKeyInput ELSE @,
                     !.sinceClear = IF SendTakesEffect(apiKey.apiKeyInput)
                                    THEN "none" ELSE @,
                     !.lastOp = "send"]
    /\ UNCHANGED <<fmtVars, samplerVars, uiVars>>

handleClearApiKey ==
    /\ apiKey' = [clearApiKey(apiKey) EXCEPT !.sentKey = Null, !.lastOp = "clear",
                                             !.sinceClear = "cleared"]
    /\ UNCHANGED <<fmtVars, samplerVars, uiVars>>

\* new GoogleGenAI({ apiKey: process.env.API_KEY }) of any of the three service
\* functions, followed by its generateContent
DispatchRequest ==
    /\ Len(apiKey.requests) < MaxRequests
    /\ apiKey' = [apiKey EXCEPT !.requests = Append(@, apiKey.envApiKey),
                                !.lastOp = "request"]
    /\ UNCHANGED <<fmtVars, samplerVars, uiVars>>

\* the page is loaded again: process.env.API_KEY is the key of the build again,
\* local storage stays, the init effect runs
Reload ==
    /\ apiKey' = [initApiKey([apiKey EXCEPT !.envApiKey = apiKey.buildApiKey])
                     EXCEPT !.lastOp = "init",
                            !.sinceClear = IF @ = "none" THEN "none" ELSE "reloaded"]
    /\ UNCHANGED <<fmtVars, samplerVars, uiVars>>

ApiKeyInit ==
    /\ fIn = NoFormatCall /\ fOut = NoResult
    /\ sIn = NoSamplerInput
    /\ sPc = "idle" /\ sDuration = NullNum /\ sCurrentTime = 0 /\ sVideoTime = 0
    /\ sFrames = <<>> /\ sSeeks = <<>> /\ sProgress = <<>> /\ sHandlers = {} /\ sSrcUrl = "none"
    /\ \E stored \in {Null} \cup UserKeys, build \in BuildKeys :
          apiKey = initApiKey([NoApiKey EXCEPT !.localStorage = stored,
                                               !.envApiKey = build,
                                               !.buildApiKey = build])
    /\ app = AppInitial /\ mounted = TRUE /\ urls = NoUrls
    /\ metaLoaders = NoLoaders /\ textReaders = 0 /\ analyses = <<>> /\ tasks = <<>>
    /\ loaderUrl = "none"

ApiKeyNext ==
    \/ \E input \in KeyInputs : ApiKeyInputChange(input)
    \/ handleSendApiKey
    \/ handleClearApiKey
    \/ DispatchRequest
    \/ Reload

SpecApiKey == ApiKeyInit /\ [][ApiKeyNext]_vars

(***************************************************************************)
(* Claims about the App component (Spec).                                  *)
(***************************************************************************)
\* the handlers that call the AI service
AIKinds == {"captureText", "reWriteFrame", "handleEditImage", "handleQuickEdit",
            "handleReWriteFromPopup"}

\* the pending invocations of AI-invoking handlers
AIOperationsInFlight ==
    Len(analyses) + Cardinality({i \in 1..Len(tasks) : tasks[i].kind \in AIKinds})

\* C1: in every reachable state at most one AI-invoking operation (video analysis,
\* capture-text, re-write frame, quick or manual image edit, popup re-write) is
\* pending.  The code does not keep this: the Analyze button is disabled only by
\* status = 'processing' and the preview panel's buttons only by the busy flags.
C1_AtMostOneAIOperation == AIOperationsInFlight <= 1

\* an AI-triggering handler is invoked from the rendered view
AIHandlerInvoked ==
    \/ handleAnalyzeClick
    \/ handleCaptureText
    \/ handleReWriteFrame
    \/ handleEditImage
    \/ \E key \in QuickEditKeys : handleQuickEdit(key)
    \/ \E size \in RewriteSizes : handleReWriteFromPopup(size)

\* C2: while an AI-invoking operation is pending, invoking an AI-triggering handler
\* changes nothing: the component's state is as it was and no further request is
\* pending.  The code does not keep this: handleAnalyzeClick has no busy guard.
C2_BusyGatingNoOp ==
    [][(AIOperationsInFlight > 0 /\ AIHandlerInvoked)
          => UNCHANGED <<app, analyses, tasks>>]_vars

\* the transitions the specification lists
ListedTransitions ==
    {<<"idle", "processing">>, <<"processing", "success">>, <<"processing", "error">>,
     <<"success", "idle">>, <<"error", "idle">>}

\* C3 as written: every change of status is idle to processing, processing to
\* success, processing to error, or success or error to idle.
C3_OnlyListedTransitions ==
    [][(mounted' /\ app'.status # app.status)
          => <<app.status, app'.status>> \in ListedTransitions]_vars

\* C3, amended: status becomes 'processing' only by handleAnalyzeClick, and from any
\* status but 'processing'; it becomes 'success' only when an analysis returns its
\* results; it becomes 'error' only when an analysis fails or a text file cannot be
\* read; it becomes 'idle' only when a video file is loaded, whatever it was before.
C3_StatusChangesByCause ==
    [][(mounted' /\ app'.status # app.status) =>
          CASE app'.status = "processing" ->
                   app.status \in {"idle", "success", "error"} /\ handleAnalyzeClick
            [] app'.status = "success" ->
                   \E i \in 1..MaxAnalyses, results \in AnalysisResults :
                       AnalysisSucceeded(i, results)
            [] app'.status = "error" ->
                   \/ \E i \in 1..MaxAnalyses :
                          AnalysisFramesRejected(i) \/ AnalysisServiceFailed(i)
                   \/ TextFileError
            [] app'.status = "idle" ->
                   \E file \in VideoFiles : handleFileChange(file)]_vars

\* status has left 'processing' for 'idle' (a file was loaded during an analysis),
\* and the analysis is still pending
C3_Witness ==
    /\ app.status = "idle" /\ Len(analyses) > 0
    /\ app.videoFile # Null

\* C4: an AI-invoking operation that fails ends with the failure caught, so no
\* pending operation sits at a failure nothing handles.  The analysis of a file
\* the media element cannot decode does (C8): it stays pending for ever.
C4_FailuresCaught ==
    \A i \in 1..Len(analyses) : analyses[i].pc # "mediaError"

\* the live object URLs made for a slot
LiveUrls(s) == {u \in Urls : urls[s][u] = "live"}

\* C5: for each of the three slots at most one object URL made for it is live in
\* every reachable state; a step that puts another URL or null into a slot leaves
\* the URL the slot held revoked, and so does the teardown.  The code does not
\* keep the first part: two invocations that are pending at the unmount each
\* create a URL for the captured slot afterwards, and nothing revokes either.
C5_OneLiveUrlPerSlot ==
    /\ [](\A s \in Slots : Cardinality(LiveUrls(s)) <= 1)
    /\ [][\A s \in Slots :
             (SlotValue(app, s) # NullUrl /\ SlotValue(app', s) # SlotValue(app, s))
                => urls'[s][SlotValue(app, s)] # "live"]_vars
    /\ [][Unmount =>
             \A s \in Slots, u \in Urls :
                 u = SlotValue(app, s) => urls'[s][u] # "live"]_vars

\* the part of C5 the code keeps: a replaced URL is revoked in the same step, and
\* the teardown revokes the URLs the slots hold
ReplacedUrlsRevoked ==
    /\ [][\A s \in Slots :
             (SlotValue(app, s) # NullUrl /\ SlotValue(app', s) # SlotValue(app, s))
                => urls'[s][SlotValue(app, s)] # "live"]_vars
    /\ [][Unmount =>
             \A s \in Slots, u \in Urls :
                 u = SlotValue(app, s) => urls'[s][u] # "live"]_vars

\* while the component is mounted the discipline holds: the live URLs of a slot
\* are at most the one it holds
LiveUrlsHeldWhileMounted ==
    mounted => \A s \in Slots : LiveUrls(s) \subseteq {SlotValue(app, s)}

(***************************************************************************)
(* Claims about the frame sampler (SpecSampler).                           *)
(***************************************************************************)
IntervalTicks == FRAME_EXTRACTION_INTERVAL * TicksPerSecond

\* the cursor values 0, I, 2I, ... that are <= D, as multiples k of I
CursorsWithin(dur) == {k \in 0..MaxDurationTicks + 1 : k * IntervalTicks <= dur}

CeilDiv(a, b) == (a + b - 1) \div b

\* C6: a resolved run holds exactly one frame per cursor value 0, I, 2I, ... <= D,
\* the k-th frame taken at the k-th cursor value, so it holds at least one frame
\* and at most ceil(D/I)+1.
C6_OneFramePerCursor ==
    sPc = "resolved" =>
        /\ Len(sFrames) = Cardinality(CursorsWithin(sIn.duration))
        /\ \A i \in 1..Len(sFrames) :
               sFrames[i].timestamp = (i - 1) * FRAME_EXTRACTION_INTERVAL
        /\ Len(sFrames) >= 1
        /\ Len(sFrames) <= CeilDiv(sIn.duration, IntervalTicks) + 1

\* a run over a duration that is no multiple of the interval has resolved with
\* several frames
C6_Witness ==
    /\ sPc = "resolved" /\ sIn.duration % IntervalTicks # 0 /\ Len(sFrames) >= 3

\* C7: the frames of a resolved run are strictly increasing in timestamp, and no
\* timestamp exceeds the duration D.
C7_IncreasingWithinDuration ==
    sPc = "resolved" =>
        /\ \A i, j \in 1..Len(sFrames) :
               i < j => sFrames[i].timestamp < sFrames[j].timestamp
        /\ \A i \in 1..Len(sFrames) :
               sFrames[i].timestamp * TicksPerSecond <= sIn.duration

\* a run has resolved whose last frame lies exactly at the end of the video
C7_Witness ==
    /\ sPc = "resolved" /\ Len(sFrames) >= 2
    /\ sFrames[Len(sFrames)].timestamp * TicksPerSecond = sIn.duration

\* C8: a sampling run always settles: as long as it has neither resolved nor
\* rejected, it has a step left to take (for every file, faulty ones included).
C8_RunSettles == SamplerSettled \/ ENABLED SamplerStep

(***************************************************************************)
(* Claims about the formatters (SpecFormat).                               *)
(***************************************************************************)
IsDigit(c) == \E i \in 1..10 : DigitChars[i] = c
DigitValue(c) == (CHOOSE i \in 1..10 : DigitChars[i] = c) - 1

IsMMSS(t) ==
    /\ Len(t) = 5
    /\ IsDigit(t[1]) /\ IsDigit(t[2]) /\ t[3] = ":" /\ IsDigit(t[4]) /\ IsDigit(t[5])

ParseMMSS(t) ==
    (DigitValue(t[1]) * 10 + DigitValue(t[2])) * 60 + DigitValue(t[4]) * 10 + DigitValue(t[5])

RECURSIVE TerminatedLines(_)
\* every entry as its line "timestamp text" followed by a newline
TerminatedLines(trans) ==
    IF trans = <<>> THEN <<>>
    ELSE trans[1].timestamp \o <<" ">> \o trans[1].text \o <<"\n">>
         \o TerminatedLines(Tail(trans))

\* the last n characters of t
Suffix(t, n) == SubSeq(t, Len(t) - n + 1, Len(t))

\* C9: after a successful analysis the formatted transcript is the entries' lines
\* "timestamp text" in their order, each followed by a newline, and then the one
\* line "clip length mm:ss" of the video duration; without entries it is that line
\* alone.
C9_FormattedTranscript ==
    (fOut.done /\ fIn.fn = "formattedText" /\ fIn.status = "success") =>
        /\ fOut.text = TerminatedLines(fIn.transcriptions)
                          \o ClipLengthPrefix \o formatDuration(fIn.videoDuration)
        /\ fIn.transcriptions = <<>> =>
               Len(fOut.text) = Len(ClipLengthPrefix) + 5 /\ "\n" \notin Range(fOut.text)
        /\ fIn.videoDuration >= 0 =>
               /\ IsMMSS(Suffix(fOut.text, 5))
               /\ ParseMMSS(Suffix(fOut.text, 5)) = fIn.videoDuration

\* two entries and a known duration have been formatted
C9_Witness ==
    /\ fOut.done /\ fIn.fn = "formattedText" /\ fIn.status = "success"
    /\ Len(fIn.transcriptions) = 2 /\ fIn.videoDuration = 130

\* C10: for whole seconds s in [0, 3599] formatTimestamp(s) and formatDuration(s)
\* are two digits, a colon and two digits, and read back as minutes*60+seconds
\* give s; 65 gives 01:05 and 0 gives 00:00.
C10_ZeroPaddedRoundTrip ==
    (fOut.done /\ fIn.fn \in {"formatTimestamp", "formatDuration"}
        /\ fIn.totalSeconds >= 0 /\ fIn.totalSeconds <= 3599) =>
        /\ IsMMSS(fOut.text)
        /\ ParseMMSS(fOut.text) = fIn.totalSeconds
        /\ fIn.totalSeconds = 65 => fOut.text = <<"0", "1", ":", "0", "5">>
        /\ fIn.totalSeconds = 0 => fOut.text = <<"0", "0", ":", "0", "0">>

\* formatTimestamp(65) has returned 01:05
C10_Witness ==
    /\ fOut.done /\ fIn.fn = "formatTimestamp" /\ fIn.totalSeconds = 65
    /\ fOut.text = <<"0", "1", ":", "0", "5">>

(***************************************************************************)
(* Claims about handleInsertTimestamp (SpecInsert).  The line holding the  *)
(* cursor is defined here from the text alone, not from the handler's      *)
(* index arithmetic.                                                       *)
(***************************************************************************)
\* the index at which the line holding position pos starts
CursorLineStart(text, pos) ==
    CHOOSE i \in 0..pos :
        /\ i = 0 \/ text[i] = "\n"
        /\ \A j \in i + 1..pos : text[j] # "\n"

\* the index just after the last character of the line holding position pos
CursorLineEnd(text, pos) ==
    CHOOSE i \in pos..Len(text) :
        /\ i = Len(text) \/ text[i + 1] = "\n"
        /\ \A j \in pos + 1..i : text[j] # "\n"

CursorLine(text, pos) ==
    SubSeq(text, CursorLineStart(text, pos) + 1, CursorLineEnd(text, pos))

\* the line starts with two digits, a colon and two digits
StartsWithMMSS(line) == Len(line) >= 5 /\ IsMMSS(SubSeq(line, 1, 5))

\* an invocation of handleInsertTimestamp with a textarea has returned
InsertDone == fOut.done /\ fIn.fn = "handleInsertTimestamp" /\ fIn.hasTextarea

\* C11: when the line holding the cursor starts with dd:dd, the new text is the old
\* text with that prefix replaced by the formatted playback time: the rest of the
\* line and every other line are as they were, whatever the cursor position within
\* the line and whatever the selection.
C11_ReplacesOnlyPrefix ==
    (InsertDone /\ StartsWithMMSS(CursorLine(fIn.text, fIn.selectionStart))) =>
        LET lineStart == CursorLineStart(fIn.text, fIn.selectionStart)
        IN  fOut.text = SubSeq(fIn.text, 1, lineStart)
                            \o formatDuration(fIn.videoCurrentTime)
                            \o SubSeq(fIn.text, lineStart + 6, Len(fIn.text))

\* the cursor is at the end of a timestamped line that is not the first line and has
\* a line after it, with a selection reaching into that next line
C11_Witness ==
    /\ InsertDone /\ StartsWithMMSS(CursorLine(fIn.text, fIn.selectionStart))
    /\ CursorLineStart(fIn.text, fIn.selectionStart) > 0
    /\ fIn.selectionStart = CursorLineEnd(fIn.text, fIn.selectionStart)
    /\ fIn.selectionEnd > fIn.selectionStart + 1
    /\ fIn.videoCurrentTime = 75
    /\ fOut.text # fIn.text

\* C12 as written: when the line holding the cursor has no dd:dd prefix, the
\* formatted time stands at the cursor in the new text and every line before and
\* after the cursor's line is as it was, for every selection.
C12_OtherLinesUnaltered ==
    (InsertDone /\ ~StartsWithMMSS(CursorLine(fIn.text, fIn.selectionStart))) =>
        LET text == fIn.text
            new == fOut.text
            time == formatDuration(fIn.videoCurrentTime)
            lineStart == CursorLineStart(text, fIn.selectionStart)
            after == Len(text) - CursorLineEnd(text, fIn.selectionStart)
        IN  /\ Len(new) >= lineStart + after
            /\ SubSeq(new, 1, lineStart) = SubSeq(text, 1, lineStart)
            /\ SubSeq(new, Len(new) - after + 1, Len(new))
                   = SubSeq(text, Len(text) - after + 1, Len(text))
            /\ SubSeq(new, fIn.selectionStart + 1, fIn.selectionStart + Len(time)) = time

\* C12, amended: when the line holding the cursor has no dd:dd prefix, the formatted
\* time replaces the selected range (it is inserted at the cursor when nothing is
\* selected): the text before the selection start and the text after the selection
\* end are as they were.  So no other line is altered when the selection lies
\* within the cursor's line; a selection reaching into later lines is overwritten
\* with them.
C12_ReplacesSelection ==
    (InsertDone /\ ~StartsWithMMSS(CursorLine(fIn.text, fIn.selectionStart))) =>
        LET text == fIn.text
            time == formatDuration(fIn.videoCurrentTime)
            lineStart == CursorLineStart(text, fIn.selectionStart)
            lineEnd == CursorLineEnd(text, fIn.selectionStart)
        IN  /\ fOut.text = SubSeq(text, 1, fIn.selectionStart) \o time
                               \o SubSeq(text, fIn.selectionEnd + 1, Len(text))
            /\ fIn.selectionEnd <= lineEnd =>
                   fOut.text = SubSeq(text, 1, lineStart)
                                   \o SubSeq(text, lineStart + 1, fIn.selectionStart)
                                   \o time
                                   \o SubSeq(text, fIn.selectionEnd + 1, lineEnd)
                                   \o SubSeq(text, lineEnd + 1, Len(text))

\* the cursor is in a line without prefix, between two other lines, and the
\* selection reaches into the next line
C12_Witness ==
    /\ InsertDone /\ ~StartsWithMMSS(CursorLine(fIn.text, fIn.selectionStart))
    /\ CursorLineStart(fIn.text, fIn.selectionStart) > 0
    /\ fIn.selectionEnd > CursorLineEnd(fIn.text, fIn.selectionStart)
    /\ fIn.selectionEnd < Len(fIn.text)

(***************************************************************************)
(* The end-to-end scenario (Spec).                                         *)
(***************************************************************************)
HelloWorldResponse ==
    <<[timestamp |-> 0, text |-> <<"H", "E", "L", "L", "O">>],
      [timestamp |-> 4, text |-> <<"W", "O", "R", "L", "D">>]>>

\* '00:00 HELLO', '00:04 WORLD', 'clip length 02:10', joined by line breaks
HelloWorldTranscript ==
    <<"0", "0", ":", "0", "0", " ", "H", "E", "L", "L", "O", "\n",
      "0", "0", ":", "0", "4", " ", "W", "O", "R", "L", "D", "\n",
      "c", "l", "i", "p", " ", "l", "e", "n", "g", "t", "h", " ", "0", "2", ":", "1", "0">>

\* C13: with the 130-second video loaded and its analysis in progress, the step
\* in which the analysis returns the entries (0, HELLO) and (4, WORLD) ends in
\* status 'success' with the editable transcript equal to the three lines; when
\* the response comes before the duration is known, the step in which the
\* metadata arrives ends so.
C13_EndToEnd ==
    [][(\/ /\ app.videoDuration = 130 /\ app.status = "processing"
           /\ \E i \in 1..MaxAnalyses :
                  AnalysisSucceeded(i, formattedResults(HelloWorldResponse))
        \/ /\ app.videoDuration = NullNum /\ app.status = "success"
           /\ app.transcriptions = formattedResults(HelloWorldResponse)
           /\ MetadataLoaded("good.mp4"))
          => /\ app'.status = "success"
             /\ app'.editableText = HelloWorldTranscript]_vars

\* the scenario has run to its end
C13_Witness ==
    /\ app.status = "success" /\ app.videoFile = "good.mp4" /\ app.videoDuration = 130
    /\ app.transcriptions = formattedResults(HelloWorldResponse)
    /\ app.editableText = HelloWorldTranscript
    /\ analyses = <<>>

(***************************************************************************)
(* Claims about single handlers of the App component (Spec).               *)
(***************************************************************************)
\* C14: handleFileChange with a video file, from any state, leaves status 'idle',
\* no transcriptions, no error, no duration, playback position 0, an empty editable
\* text and edit prompt, no captured and no edited frame URL, no external image
\* file and the image preview hidden.
C14_FileChangeResets ==
    [][(\E file \in VideoFiles : handleFileChange(file)) =>
          /\ app'.status = "idle" /\ app'.transcriptions = <<>> /\ app'.error = Null
          /\ app'.videoDuration = NullNum /\ app'.videoCurrentTime = 0
          /\ app'.editableText = <<>> /\ app'.editPrompt = ""
          /\ app'.capturedFrameUrl = NullUrl /\ app'.editedFrameUrl = NullUrl
          /\ app'.externalImageFile = Null /\ ~app'.isImagePreviewVisible]_vars

\* a file was loaded over a session in progress: its metadata loader is pending,
\* and a pending handleEditAgain still holds the preview URL the reset has cleared
C14_Witness ==
    /\ app.videoFile # Null /\ app.status = "idle" /\ app.videoDuration = NullNum
    /\ app.capturedFrameUrl = NullUrl /\ ~app.isImagePreviewVisible
    /\ LoadersPending = 1
    /\ \E i \in 1..Len(tasks) :
          tasks[i].kind = "handleEditAgain" /\ tasks[i].capturedFrameUrl # NullUrl

\* C16: when the metadata of a loaded video cannot be read, or no canvas context
\* is available while sampling, the operation ends in the error state: status
\* 'error' with a non-null error message (while the component is mounted).
C16_DecodeErrorsSurfaced ==
    [][(/\ mounted
        /\ \/ \E file \in VideoFiles : MetadataError(file)
           \/ \E i \in 1..MaxAnalyses : AnalysisFramesRejected(i))
       => (app'.status = "error" /\ app'.error # Null)]_vars

(***************************************************************************)
(* Claims about the guards of the handlers (SpecHandlers).                 *)
(***************************************************************************)
\* the state a guard has to leave alone, and the requests to the AI service in it
AppState == <<app, urls, tasks, analyses, mounted, metaLoaders, textReaders>>
BlankPrompts == {"", " "}

\* the states of HandlerStates are states of the App: Spec reaches them
HandlerStatesReached ==
    \E g \in HandlerStates : g.app.isEditing /\ g.app.videoFile # Null
                              /\ g.app.editPrompt = " "
                              /\ app = g.app /\ urls = g.urls /\ tasks = g.tasks

\* C15: a call of handleAnalyzeClick without a video file, or of handleEditImage or
\* handleQuickEdit without a preview image or with an empty or whitespace-only
\* prompt (for a quick edit: no prompt for its key), leaves the whole state of
\* the App unchanged and starts no AI request.
C15_GuardsAreNoOps ==
    [][(\/ CallHandleAnalyzeClick /\ app.videoFile = Null
        \/ CallHandleEditImage
             /\ (app.capturedFrameUrl = NullUrl \/ app.editPrompt \in BlankPrompts)
        \/ CallHandleQuickEdit
             /\ (app.capturedFrameUrl = NullUrl \/ fIn.key = UnknownKey))
       => UNCHANGED AppState]_vars

\* Apply Edit was called beside a preview image with a whitespace-only prompt and
\* no request was started
C15_Witness ==
    /\ fOut.done /\ fIn.fn = "handleEditImage"
    /\ app.capturedFrameUrl # NullUrl /\ app.editPrompt = " " /\ ~app.isEditing
    /\ tasks = <<>>

(***************************************************************************)
(* Claims about the image scan of a response (SpecImage).                  *)
(***************************************************************************)
ImageMediaTypes == {ImagePng, ImageJpeg}
ImageCallDone ==
    fOut.done /\ fIn.fn \in {"processFrameForTextExtraction", "editImage"}
NoImageMessage ==
    IF fIn.fn = "editImage" THEN NoEditedImage ELSE NoGeneratedImage

\* the parts of the candidates, in the order of the response
RECURSIVE PartsOfCandidates(_)
PartsOfCandidates(cands) ==
    IF cands = <<>> THEN <<>>
    ELSE (IF Head(cands).hasContent /\ Head(cands).hasParts
          THEN Head(cands).parts ELSE <<>>) \o PartsOfCandidates(Tail(cands))

ImagePositions(parts) ==
    {i \in 1..Len(parts) :
        /\ parts[i].hasInlineData /\ parts[i].hasMimeType
        /\ parts[i].mimeType \in ImageMediaTypes}

FirstImage(parts) ==
    parts[CHOOSE i \in ImagePositions(parts) : \A j \in ImagePositions(parts) : i <= j]

\* what the call has to give for the parts that count
ScanAgrees(parts) ==
    IF ImagePositions(parts) # {}
    THEN fOut.text = Returned(FirstImage(parts).data)
    ELSE fOut.text = Thrown(NoImageMessage)

\* C17: the payload of the first inline image part of the response is returned,
\* and the call fails with the explicit error, and returns no value, when the
\* response has no candidates, no content parts, or no image part.  The code does
\* not keep this: an inline part that names no media type ends the scan with a
\* TypeError, whether or not an image part follows it, and only the first
\* candidate is scanned.
C17_FirstImageOfResponse ==
    ImageCallDone => ScanAgrees(PartsOfCandidates(fIn.response.candidates))

\* without inline data that lacks its media type, the first candidate is scanned
\* as the claim says: its first image is returned, or the explicit error thrown
FirstCandidateScanned ==
    (/\ ImageCallDone /\ fIn.response.hasCandidates /\ fIn.response.candidates # <<>>
     /\ \A i \in 1..Len(fIn.response.candidates[1].parts) :
            ~StartsWithOfUndefined(fIn.response.candidates[1].parts[i]))
        => ScanAgrees(PartsOfCandidates(<<fIn.response.candidates[1]>>))

(***************************************************************************)
(* Claims about the API credential (SpecApiKey).                           *)
(***************************************************************************)
\* C18: after a Send of a key k that is neither empty nor the placeholder, local
\* storage holds k and every request dispatched until the next Send or Clear
\* carries k; a Send of the empty input or of the placeholder changes neither the
\* stored key nor the credential of the requests.
C18_SentKeyIsCredential ==
    /\ [](apiKey.sentKey # Null =>
            apiKey.localStorage = apiKey.sentKey /\ apiKey.envApiKey = apiKey.sentKey)
    /\ [][(DispatchRequest /\ apiKey.sentKey # Null) =>
            apiKey'.requests[Len(apiKey'.requests)] = apiKey.sentKey]_vars
    /\ [][(handleSendApiKey /\ SendTakesEffect(apiKey.apiKeyInput)) =>
            /\ apiKey'.localStorage = apiKey.apiKeyInput
            /\ apiKey'.envApiKey = apiKey.apiKeyInput
            /\ apiKey'.sentKey = apiKey.apiKeyInput]_vars
    /\ [][(handleSendApiKey /\ apiKey.apiKeyInput \in {"", NoApiKeyPlaceholder}) =>
            /\ apiKey'.localStorage = apiKey.localStorage
            /\ apiKey'.envApiKey = apiKey.envApiKey
            /\ apiKey'.requests = apiKey.requests]_vars

\* K1 was sent over a stored K2, the page was loaded again and a request went out
\* with K1
C18_Witness ==
    /\ apiKey.sentKey = "K1" /\ apiKey.buildApiKey = "ENVKEY"
    /\ apiKey.lastOp = "request"
    /\ apiKey.requests = <<"K2", "K1">>

(***************************************************************************)
(* Claims about the entries analyzeVideoForText returns (SpecFormat).      *)
(***************************************************************************)
\* C19: every entry analyzeVideoForText produces has a timestamp of the form
\* mm:ss, for every integer timestamp in the AI response, and the entries keep
\* the order of the response.
C19_EntriesAreMMSS ==
    (fOut.done /\ fIn.fn = "formattedResults") =>
        /\ Len(fOut.text) = Len(fIn.rawResults)
        /\ \A i \in 1..Len(fIn.rawResults) :
              /\ IsMMSS(fOut.text[i].timestamp)
              /\ fOut.text[i].text = fIn.rawResults[i].text

\* C19 without the form of the timestamp holds: one entry per entry of the
\* response, in its order, with its text
C19_OrderKept ==
    (fOut.done /\ fIn.fn = "formattedResults") =>
        /\ Len(fOut.text) = Len(fIn.rawResults)
        /\ \A i \in 1..Len(fIn.rawResults) :
              /\ fOut.text[i].text = fIn.rawResults[i].text
              /\ fOut.text[i].timestamp = formatTimestamp(fIn.rawResults[i].timestamp)

(***************************************************************************)
(* Claims about the order of the sampler's seeks (SpecSampler).            *)
(***************************************************************************)
\* the seeks requested so far whose frame has not been appended
SeeksOutstanding == Len(sSeeks) - Len(sFrames)

\* C20: within one run a new seek is requested only after the previous seek has
\* settled and its frame has been appended, so at most one seek is outstanding at
\* any time, and the frames are appended in the order the seeks were requested.
C20_StrictlySequential ==
    /\ [](/\ SeeksOutstanding \in {0, 1}
          /\ \A i \in 1..Len(sFrames) : sFrames[i].timestamp = RoundTicks(sSeeks[i]))
    /\ [][sSeeks' # sSeeks =>
            /\ SeeksOutstanding = 0 \/ Len(sFrames') = Len(sSeeks)
            /\ Len(sSeeks') = Len(sSeeks) + 1]_vars

\* three frames appended and the fourth seek outstanding
C20_Witness ==
    /\ sPc = "seeking" /\ Len(sFrames) = 3 /\ Len(sSeeks) = 4

(***************************************************************************)
(* Claims about the progress of a sampling run (SpecSampler).              *)
(***************************************************************************)
Abs(x) == IF x < 0 THEN -x ELSE x

\* p is the whole percentage nearest to cursor / duration, 100 at most (both in
\* ticks); a cursor over the duration Infinity is 0
IsPercentageOf(p, cursor, dur) ==
    /\ p \in 0..100
    /\ IF dur = Infinity THEN p = 0
       ELSE \/ p < 100 /\ 2 * Abs(100 * cursor - p * dur) <= dur
            \/ p = 100 /\ 2 * 100 * cursor + dur >= 2 * 100 * dur

\* C21: one progress value is reported after each captured frame, each value is
\* a whole percentage in 0..100 equal to the cursor over the duration (capped at
\* 100), and the values never decrease, for every duration D >= 0.
C21_ProgressIsPercentage ==
    /\ Len(sProgress) = Len(sFrames)
    /\ \A i \in 1..Len(sProgress) :
          IsPercentageOf(sProgress[i], (i - 1) * IntervalTicks, sDuration)
    /\ \A i, j \in 1..Len(sProgress) : i < j => sProgress[i] <= sProgress[j]

\* the same for every duration D > 0
C21_ProgressIsPercentagePositive ==
    (sIn.duration > 0 \/ sIn.duration = Infinity) => C21_ProgressIsPercentage

(***************************************************************************)
(* Claims about the App component under concurrent events (Spec).          *)
(***************************************************************************)
\* C22: once a successful analysis has populated the editable transcript, the
\* editable text changes only through the user (typing, a timestamp insertion or
\* a text-file import), a new analysis or a new video load, and not through any
\* other event such as a late arrival of the video metadata.
C22_EditsNotOverwritten ==
    [][(app.status = "success" /\ app'.editableText # app.editableText) =>
          \/ \E value \in TypedTexts : EditableTextChange(value)
          \/ InsertTimestampClick
          \/ TextFileLoaded
          \/ handleAnalyzeClick
          \/ \E i \in 1..MaxAnalyses, results \in AnalysisResults :
                AnalysisSucceeded(i, results)
          \/ \E file \in VideoFiles : handleFileChange(file)
          \/ Unmount]_vars

\* what the result of an operation on a video shows in: the transcript, the
\* status, the editable text and the edited frame
ResultState == <<app.transcriptions, app.status, app.editableText, app.editedFrameUrl>>

\* C23: when an analysis started on a video file completes after another video
\* file has been loaded, its result changes neither the transcriptions, the
\* status, the editable text nor the edited-frame URL.
C23_StaleResultsDropped ==
    [][\A i \in 1..Len(analyses) :
          (/\ analyses[i].file # app.videoFile
           /\ \/ \E results \in AnalysisResults : AnalysisSucceeded(i, results)
              \/ AnalysisServiceFailed(i)
              \/ AnalysisFramesRejected(i))
          => UNCHANGED ResultState]_vars

\* C25: in every state, status 'error' implies a non-null error message.
C25_ErrorStatusHasMessage == app.status = "error" => app.error # Null

\* C26: in every state, a non-null edited-frame URL implies a non-null captured
\* (preview) frame URL.
C26_EditedImpliesCaptured ==
    app.editedFrameUrl # NullUrl => app.capturedFrameUrl # NullUrl

\* the handlers that fetch the URL of a slot
FetchKinds == {"handleEditImage", "handleQuickEdit", "handleReWriteFromPopup",
               "handleEditAgain"}

\* C27: every fetch of the captured or edited frame URL reads a URL that is live
\* at the moment of the read, for every interleaving of user actions with pending
\* operations.
C27_FetchedUrlsLive ==
    /\ \A i \in 1..Len(tasks) : tasks[i].kind \in FetchKinds => tasks[i].fetched
    /\ \A s \in {"captured", "edited"} :
          SlotValue(app, s) # NullUrl => urls[s][SlotValue(app, s)] = "live"

\* handleEditAgain fetched the edited image of an opened image file and, while
\* that invocation was pending, a quick edit fetched the preview image: both
\* reads found their URL live
C27_Witness ==
    /\ Len(tasks) = 2
    /\ tasks[1].kind = "handleEditAgain" /\ tasks[1].fetched
    /\ tasks[2].kind = "handleQuickEdit" /\ tasks[2].fetched
    /\ app.editedFrameUrl # NullUrl /\ app.externalImageFile # Null

(***************************************************************************)
(* Claims about video files loaded one after the other (SpecLoad).         *)
(***************************************************************************)
\* C24: the stored duration is null or the duration of the selected video file; a
\* metadata event of a file loaded earlier, arriving after the next load, does
\* not change it.
C24_DurationOfSelectedFile ==
    app.videoDuration # NullNum =>
        /\ Decodable(app.videoFile)
        /\ app.videoDuration = DurationOf(app.videoFile)


\* The object URL of extractFramesFromVideo once its promise has settled
SamplerEnded == sPc \in {"resolved", "rejected"}

SamplerUrlReleased == SamplerEnded => sSrcUrl # "live"

\* C28: the temporary object URLs made outside the three slots are released
\* on every outcome: once a metadata loader of handleFileChange has fired
\* onloadedmetadata or onerror its URL is not live any more, and once the
\* promise of extractFramesFromVideo has resolved or rejected its URL is not
\* live any more.
C28_TemporaryUrlsReleased ==
    /\ LoadersPending = 0 => loaderUrl # "live"
    /\ SamplerUrlReleased


(***************************************************************************)
(* Claims about the timestamp button pressed twice (SpecTwice).            *)
(***************************************************************************)
\* C29: on a line that starts with an mm:ss prefix, for a playback time below
\* 100 minutes, every press of the timestamp button leaves the length of the
\* text as it was, and a second press at the same playback time with the
\* cursor on the same line leaves the text as the first press made it.
C29_InsertIdempotent ==
    (fOut.done /\ fIn.fn = "handleInsertTimestamp" /\ fIn.prefixed
       /\ fIn.videoCurrentTime < 100 * 60) =>
        /\ Len(fOut.text) = Len(fIn.text)
        /\ fIn.again => fOut.text = fIn.text

\* a second press on a line whose prefix the first press changed
C29_Witness ==
    /\ fOut.done /\ fIn.fn = "handleInsertTimestamp" /\ fIn.prefixed /\ fIn.again
    /\ fIn.videoCurrentTime = 75
    /\ fIn.text = <<"1", "2", ":", "3", "4", "\n", "0", "1", ":", "1", "5", " ", "W">>
    /\ fIn.selectionStart = 13
    /\ fOut.text = fIn.text


(***************************************************************************)
(* Claims about the API key after a Clear (SpecApiKey).  sinceClear says   *)
(* whether a Clear has been made that no successful Send has followed, and *)
(* whether the page has been loaded again since.                           *)
(***************************************************************************)
ClearEmptiesStorage ==
    [][handleClearApiKey =>
          /\ apiKey'.localStorage = Null
          /\ apiKey'.apiKeyInput = NoApiKeyPlaceholder]_vars

LastRequest(k) == k.requests[Len(k.requests)]

\* C30: right after handleClearApiKey local storage holds no key and the key
\* field shows 'no API key', and every AI request dispatched after a Clear and
\* before the next successful Send carries the empty credential.
C30_ClearedUntilSend ==
    /\ ClearEmptiesStorage
    /\ [][(DispatchRequest /\ apiKey.sinceClear # "none") =>
            LastRequest(apiKey') = ""]_vars

\* C30 for one page session: right after handleClearApiKey local storage holds no
\* key and the key field shows 'no API key', and every AI request dispatched
\* after a Clear and before the next successful Send or the next load of the
\* page carries the empty credential.
C30_ClearedUntilSendOrReload ==
    /\ ClearEmptiesStorage
    /\ [][(DispatchRequest /\ apiKey.sinceClear = "cleared") =>
            LastRequest(apiKey') = ""]_vars

\* a request went out with the stored key K1, the key was cleared, and the next
\* request went out with the empty credential although the build has a key
C30_Witness ==
    /\ apiKey.sinceClear = "cleared" /\ apiKey.lastOp = "request"
    /\ apiKey.buildApiKey = "ENVKEY" /\ apiKey.localStorage = Null
    /\ apiKey.requests = <<"K1", "">>

====
